---- MODULE Spec2Model ----
(***************************************************************************)
(* A model of the boringtun device core: the device state container with   *)
(* its three peer indices (device/mod.rs), the worker event loop and the   *)
(* handlers it runs (device/mod.rs), and the UAPI control channel          *)
(* (device/api.rs).                                                        *)
(*                                                                         *)
(* The device is one record value `device`; every device operation is an   *)
(* operator from a device value to a device value, named as in the source. *)
(* Collaborators whose code lives in other files of the repository (the    *)
(* lock, the event poller, Peer, AllowedIps, the request parser) follow    *)
(* the contracts the specification gives for them.                         *)
(***************************************************************************)
EXTENDS Integers, Sequences, FiniteSets, TLC

(***************************************************************************)
(* Bounds of the model.                                                    *)
(***************************************************************************)
NWorkers == 2     \* worker threads (DeviceConfig.n_threads)
MaxPriv == 2      \* device private keys 1..MaxPriv
MaxPeerKey == 2   \* peer static public keys 1..MaxPeerKey
MaxPort == 2      \* UDP ports 1..MaxPort, 0 asks the OS to choose
MaxMark == 2      \* fwmarks 1..MaxMark
MaxIndex == 2     \* peers created over the life of one device
AddrBits == 1     \* width of an inner IP address
MaxStream == 5    \* lines on one framed stream
MaxQueued == 1    \* packets queued in a tunnel behind a WriteToNetwork
MaxSignals == 1   \* signals delivered to the process
MaxReplaced == 2  \* peer blocks of one replace_peers request
MaxTun == 3       \* packets read from the tun device

(***************************************************************************)
(* Program constants.                                                      *)
(***************************************************************************)
IndexLimit == 16777216
MAX_ITR == 100
RECVMSG_NUM_CHUNKS == 10
EADDRINUSE == 98
PskUnset == 0

(***************************************************************************)
(* Option<T> is a sequence of length 0 or 1.                               *)
(***************************************************************************)
None == <<>>
Some(x) == <<x>>
IsSome(o) == o # <<>>
Unwrap(o) == o[1]

(***************************************************************************)
(* HashMap<K, V> is a function; these are insert, remove and values.       *)
(***************************************************************************)
EmptyMap == [k \in {} |-> 0]
MapInsert(m, k, v) == [x \in DOMAIN m \cup {k} |-> IF x = k THEN v ELSE m[x]]
MapRemove(m, k) == [x \in DOMAIN m \ {k} |-> m[x]]
MapValues(m) == {m[k] : k \in DOMAIN m}

(***************************************************************************)
(* Value domains.                                                          *)
(***************************************************************************)
PrivKeys == 1..MaxPriv
PeerKeys == 1..MaxPeerKey
Ports == 0..MaxPort
Marks == 1..MaxMark
Families == {4, 6}
Workers == 1..NWorkers
\* A remote socket address (family, host); one host per family is enough to
\* tell an endpoint change.
SockAddrs == [fam : Families, host : {1}]
\* An inner IP address and an allowed-IP entry (AllowedIP { addr, cidr }).
IpAddrs == [fam : Families, a : 0..(2^AddrBits - 1)]
AllowedIPs == [fam : Families, addr : 0..(2^AddrBits - 1), cidr : 0..AddrBits]

\* x25519 public key derivation: injective, and never the private key itself.
PublicKeyFrom(sk) == sk + 1

\* Tunn::new / set_static_private reject a bad key combination; the model
\* takes the peer key that is the device's own public key as the bad one.
TunnRejects(sk, pk) == pk = PublicKeyFrom(sk)

\* Ports that another process holds, and fwmarks the OS refuses.
PortInUse(fam, port) == port = MaxPort
MarkRejected(mark) == mark = MaxMark

(***************************************************************************)
(* AllowedIps<D>: a map from the masked prefix (family, bits, length) to   *)
(* a value.                                                                *)
(***************************************************************************)
Mask(a, len) == (a \div (2^(AddrBits - len))) * (2^(AddrBits - len))
Prefix(fam, addr, len) == [fam |-> fam, addr |-> Mask(addr, len), cidr |-> len]
Covers(p, ip) == p.fam = ip.fam /\ Mask(ip.a, p.cidr) = Mask(p.addr, p.cidr)

trie_insert(t, fam, addr, len, v) == MapInsert(t, Prefix(fam, addr, len), v)

trie_find(t, ip) ==
    LET hits == {p \in DOMAIN t : Covers(p, ip)}
    IN IF hits = {} THEN None
       ELSE Some(t[CHOOSE p \in hits : \A q \in hits : q.cidr <= p.cidr])

\* remove(predicate), for the predicate the device uses: the value is `v`.
trie_remove(t, v) == [p \in {q \in DOMAIN t : t[q] # v} |-> t[p]]

(***************************************************************************)
(* Peer.  A peer object is identified by the index it was created with     *)
(* (the Arc<Peer> pointer); `store` maps that identity to the object for   *)
(* as long as a map or a registered handler closure still refers to it.    *)
(***************************************************************************)
Peer_new(sk, pk, index, endpoint, allowed_ips, keepalive, psk) ==
    [public_key |-> pk, index |-> index, addr |-> endpoint, conn |-> None,
     allowed_ips |-> {allowed_ips[i] : i \in DOMAIN allowed_ips},
     keepalive |-> keepalive, preshared_key |-> psk, tunnel_key |-> sk]

is_allowed_ip(peer, ip) ==
    \E e \in peer.allowed_ips : Covers(Prefix(e.fam, e.addr, e.cidr), ip)

persistent_keepalive(peer) == peer.keepalive

(***************************************************************************)
(* Device.                                                                 *)
(***************************************************************************)
Device_new(use_connected_socket) ==
    [config |-> [use_connected_socket |-> use_connected_socket],
     key_pair |-> None, listen_port |-> 0, fwmark |-> None,
     udp4 |-> None, udp6 |-> None,
     peers |-> EmptyMap, peers_by_ip |-> EmptyMap, peers_by_idx |-> EmptyMap,
     next_index |-> 0, rate_limiter |-> None,
     store |-> EmptyMap,
     udp_handlers |-> {}, conn_handlers |-> {}, signal_handlers |-> {}]

\* Device::register_api_signal_handlers: a handler for SIGINT and one for
\* SIGTERM, both returning Action::Exit.
Signals == {"SIGINT", "SIGTERM"}
register_api_signal_handlers(d) == [d EXCEPT !.signal_handlers = Signals]

\* The strong references to a peer object: one per map entry holding it and
\* one per registered connected-socket handler closure.
strong_count(d, pid) ==
    Cardinality({k \in DOMAIN d.peers : d.peers[k] = pid})
    + Cardinality({i \in DOMAIN d.peers_by_idx : d.peers_by_idx[i] = pid})
    + Cardinality({p \in DOMAIN d.peers_by_ip : d.peers_by_ip[p] = pid})
    + Cardinality({h \in d.conn_handlers : h.peer = pid})

\* A peer object is freed when its last reference goes.
drop_unreferenced(d) ==
    [d EXCEPT !.store = [p \in {q \in DOMAIN d.store : strong_count(d, q) > 0}
                            |-> d.store[p]]]

\* Peer::shutdown_endpoint: closes the connected socket, keeps the address.
\* The poller then reports end-of-file for the handler registered on it.
shutdown_endpoint(d, pid) ==
    IF IsSome(d.store[pid].conn)
    THEN [d EXCEPT !.store[pid].conn = None,
                   !.conn_handlers =
                       {IF h.peer = pid /\ h.open THEN [h EXCEPT !.open = FALSE] ELSE h
                           : h \in d.conn_handlers}]
    ELSE d

\* The loop over the peers that closes no connected socket.
shutdown_endpoints_skipped(d, pids) == d

RECURSIVE shutdown_endpoints(_, _)
shutdown_endpoints(d, pids) ==
    IF pids = {} THEN d
    ELSE LET p == CHOOSE x \in pids : TRUE
         IN shutdown_endpoints(shutdown_endpoint(d, p), pids \ {p})

\* next_index without its assert.
next_index_unchecked(d) ==
    [d |-> [d EXCEPT !.next_index = d.next_index + 1],
     index |-> d.next_index,
     panic |-> FALSE]

next_index(d) ==
    [d |-> [d EXCEPT !.next_index = d.next_index + 1],
     index |-> d.next_index,
     panic |-> ~(d.next_index < IndexLimit)]

\* remove_peer that leaves the trie as it is.
remove_peer_unswept(d, pub_key) ==
    IF pub_key \in DOMAIN d.peers
    THEN LET peer == d.peers[pub_key]
             d1 == [d EXCEPT !.peers = MapRemove(d.peers, pub_key)]
             d2 == shutdown_endpoint(d1, peer)
             d3 == [d2 EXCEPT !.peers_by_idx = MapRemove(d2.peers_by_idx, d2.store[peer].index)]
         IN drop_unreferenced(d3)
    ELSE d

remove_peer(d, pub_key) ==
    IF pub_key \in DOMAIN d.peers
    THEN LET peer == d.peers[pub_key]
             d1 == [d EXCEPT !.peers = MapRemove(d.peers, pub_key)]
             d2 == shutdown_endpoint(d1, peer)
             d3 == [d2 EXCEPT !.peers_by_idx = MapRemove(d2.peers_by_idx, d2.store[peer].index)]
             d4 == [d3 EXCEPT !.peers_by_ip = trie_remove(d3.peers_by_ip, peer)]
         IN drop_unreferenced(d4)
    ELSE d

RECURSIVE insert_allowed_ips(_, _, _)
insert_allowed_ips(t, allowed_ips, peer) ==
    IF allowed_ips = <<>> THEN t
    ELSE LET e == Head(allowed_ips)
         IN insert_allowed_ips(trie_insert(t, e.fam, e.addr, e.cidr, peer),
                               Tail(allowed_ips), peer)

update_peer(d, pub_key, remove, replace_ips, endpoint, allowed_ips, keepalive, preshared_key) ==
    IF remove THEN [d |-> remove_peer(d, pub_key), panic |-> FALSE]
    ELSE IF pub_key \in DOMAIN d.peers
    THEN [d |-> d, panic |-> TRUE]      \* "Modifying existing peers is not yet supported"
    ELSE LET ni == next_index(d)
         IN IF ni.panic THEN [d |-> ni.d, panic |-> TRUE]
            ELSE IF ~IsSome(d.key_pair)
            THEN [d |-> ni.d, panic |-> TRUE]   \* "Private key must be set first"
            ELSE IF TunnRejects(Unwrap(d.key_pair).sk, pub_key)
            THEN [d |-> ni.d, panic |-> TRUE]   \* Tunn::new(..).unwrap()
            ELSE LET peer == Peer_new(Unwrap(d.key_pair).sk, pub_key, ni.index,
                                      endpoint, allowed_ips, keepalive, preshared_key)
                     d1 == [ni.d EXCEPT
                              !.store = MapInsert(ni.d.store, ni.index, peer),
                              !.peers = MapInsert(ni.d.peers, pub_key, ni.index),
                              !.peers_by_idx = MapInsert(ni.d.peers_by_idx, ni.index, ni.index)]
                 IN [d |-> [d1 EXCEPT !.peers_by_ip =
                                insert_allowed_ips(d1.peers_by_ip, allowed_ips, ni.index)],
                     panic |-> FALSE]

clear_peers(d) ==
    drop_unreferenced([d EXCEPT !.peers = EmptyMap,
                                !.peers_by_idx = EmptyMap,
                                !.peers_by_ip = EmptyMap])

udp_socket(fam, port) == [fam |-> fam, port |-> port]

\* `eph` is the port the OS assigns when asked for port 0.
open_listen_socket(d, port, eph) ==
    LET d1 == [d EXCEPT !.udp4 = None, !.udp6 = None, !.udp_handlers = {}]
        d2 == shutdown_endpoints(d1, MapValues(d1.peers))
        p4 == IF port = 0 THEN eph ELSE port
    IN IF PortInUse(4, port) \/ PortInUse(6, p4)
       THEN [d |-> d2, ok |-> FALSE]
       ELSE [d |-> [d2 EXCEPT !.udp4 = Some(udp_socket(4, p4)),
                              !.udp6 = Some(udp_socket(6, p4)),
                              !.udp_handlers = {udp_socket(4, p4), udp_socket(6, p4)},
                              !.listen_port = p4],
             ok |-> TRUE]

\* set_key installing the key pair and leaving the rate limiter as it was.
set_key_limiter_kept(d, private_key) ==
    [d |-> [d EXCEPT !.key_pair = Some([sk |-> private_key,
                                        pk |-> PublicKeyFrom(private_key)])],
     panic |-> FALSE]

\* set_key going on to re-key although the public key is the current one.
set_key_always(d, private_key) ==
    LET public_key == PublicKeyFrom(private_key)
    IN IF \E p \in MapValues(d.peers) : strong_count(d, p) > 1
       THEN [d |-> d, panic |-> TRUE, limiter_new |-> TRUE]
       ELSE [d |-> [d EXCEPT !.store = [p \in DOMAIN d.store |->
                                          [d.store[p] EXCEPT !.tunnel_key = private_key]],
                             !.key_pair = Some([sk |-> private_key, pk |-> public_key]),
                             !.rate_limiter = Some(public_key)],
             panic |-> FALSE, limiter_new |-> TRUE]

\* `limiter_new` is whether the call reached Arc::new(RateLimiter::new(..)).
set_key(d, private_key) ==
    LET public_key == PublicKeyFrom(private_key)
    IN IF IsSome(d.key_pair) /\ Unwrap(d.key_pair).pk = public_key
       THEN [d |-> d, panic |-> FALSE, limiter_new |-> FALSE]
       ELSE IF \E p \in MapValues(d.peers) : strong_count(d, p) > 1
       THEN [d |-> d, panic |-> TRUE,    \* Arc::get_mut(peer).expect(..)
             limiter_new |-> TRUE]
       ELSE LET bad_peers == {p \in MapValues(d.peers) :
                                 TunnRejects(private_key, d.store[p].public_key)}
                rekeyed == [p \in DOMAIN d.store |->
                               IF p \in MapValues(d.peers) \ bad_peers
                               THEN [d.store[p] EXCEPT !.tunnel_key = private_key]
                               ELSE d.store[p]]
            IN [d |-> [d EXCEPT !.store = rekeyed,
                                !.key_pair = Some([sk |-> private_key, pk |-> public_key]),
                                !.rate_limiter = Some(public_key)],
                panic |-> bad_peers # {},   \* unimplemented!()
                limiter_new |-> TRUE]

set_fwmark(d, mark) ==
    LET d1 == [d EXCEPT !.fwmark = Some(mark)]
        sockets == IsSome(d.udp4) \/ IsSome(d.udp6)
                   \/ \E p \in MapValues(d.peers) : IsSome(d.store[p].conn)
    IN [d |-> d1, ok |-> ~(sockets /\ MarkRejected(mark))]

(***************************************************************************)
(* UAPI requests and responses (api/command.rs types as api.rs uses them). *)
(***************************************************************************)
SetOf(private_key, listen_port, fwmark, replace_peers, protocol_version, peers) ==
    [private_key |-> private_key, listen_port |-> listen_port, fwmark |-> fwmark,
     replace_peers |-> replace_peers, protocol_version |-> protocol_version,
     peers |-> peers]

SetPeerOf(public_key, preshared_key, endpoint, keepalive, allowed_ip, remove, update_only) ==
    [public_key |-> public_key, preshared_key |-> preshared_key, endpoint |-> endpoint,
     persistent_keepalive_interval |-> keepalive, allowed_ip |-> allowed_ip,
     remove |-> remove, update_only |-> update_only]

RequestGet == [type |-> "get"]
RequestSet(set) == [type |-> "set", set |-> set]

api_get(d) ==
    [private_key |-> IF IsSome(d.key_pair) THEN Some(Unwrap(d.key_pair).pk) ELSE None,
     listen_port |-> Some(d.listen_port),
     fwmark |-> d.fwmark,
     peers |-> {[public_key |-> k,
                 preshared_key |-> None,
                 endpoint |-> d.store[d.peers[k]].addr,
                 persistent_keepalive_interval |-> persistent_keepalive(d.store[d.peers[k]]),
                 allowed_ip |-> d.store[d.peers[k]].allowed_ips]
                : k \in DOMAIN d.peers}]

RECURSIVE api_set_peers(_, _)
api_set_peers(d, peers) ==
    IF peers = <<>> THEN [d |-> d, panic |-> FALSE]
    ELSE LET p == Head(peers)
         IN IF p.update_only /\ p.public_key \notin DOMAIN d.peers
            THEN api_set_peers(d, Tail(peers))
            ELSE IF p.preshared_key = Some(PskUnset)
            THEN [d |-> d, panic |-> TRUE]      \* todo!("not sure how to handle this")
            ELSE LET r == update_peer(d, p.public_key, p.remove, FALSE, p.endpoint,
                                      p.allowed_ip, p.persistent_keepalive_interval,
                                      p.preshared_key)
                 IN IF r.panic THEN r ELSE api_set_peers(r.d, Tail(peers))

\* api_set running the peer blocks before the key, the listeners and the fwmark.
api_set_peers_first(set, d, eph) ==
    LET d1 == IF set.replace_peers THEN clear_peers(d) ELSE d
        ps == api_set_peers(d1, set.peers)
        k == IF IsSome(set.private_key)
             THEN set_key(ps.d, Unwrap(set.private_key))
             ELSE [d |-> ps.d, panic |-> FALSE]
        l == IF IsSome(set.listen_port)
             THEN open_listen_socket(k.d, Unwrap(set.listen_port), eph)
             ELSE [d |-> k.d, ok |-> TRUE]
        f == IF IsSome(set.fwmark)
             THEN set_fwmark(l.d, Unwrap(set.fwmark))
             ELSE [d |-> l.d, ok |-> TRUE]
    IN IF ps.panic THEN [d |-> ps.d, errno |-> 0, panic |-> TRUE]
       ELSE IF k.panic THEN [d |-> k.d, errno |-> 0, panic |-> TRUE]
       ELSE IF ~l.ok THEN [d |-> l.d, errno |-> EADDRINUSE, panic |-> FALSE]
       ELSE IF ~f.ok THEN [d |-> f.d, errno |-> EADDRINUSE, panic |-> FALSE]
       ELSE [d |-> f.d, errno |-> 0,
             panic |-> IsSome(set.protocol_version) /\ Unwrap(set.protocol_version) # "1"]

\* The result of api_set: the device it leaves, and either the errno of the
\* SetResponse or a panic of the calling thread.
api_set(set, d, eph) ==
    LET d1 == IF set.replace_peers THEN clear_peers(d) ELSE d
        k == IF IsSome(set.private_key)
             THEN set_key(d1, Unwrap(set.private_key))
             ELSE [d |-> d1, panic |-> FALSE]
        l == IF IsSome(set.listen_port)
             THEN open_listen_socket(k.d, Unwrap(set.listen_port), eph)
             ELSE [d |-> k.d, ok |-> TRUE]
        f == IF IsSome(set.fwmark)
             THEN set_fwmark(l.d, Unwrap(set.fwmark))
             ELSE [d |-> l.d, ok |-> TRUE]
        ps == api_set_peers(f.d, set.peers)
    IN IF k.panic THEN [d |-> k.d, errno |-> 0, panic |-> TRUE]
       ELSE IF ~l.ok THEN [d |-> l.d, errno |-> EADDRINUSE, panic |-> FALSE]
       ELSE IF ~f.ok THEN [d |-> f.d, errno |-> EADDRINUSE, panic |-> FALSE]
       ELSE IF IsSome(set.protocol_version) /\ Unwrap(set.protocol_version) # "1"
       THEN [d |-> f.d, errno |-> 0, panic |-> TRUE]  \* todo!("handle invalid protocol version")
       ELSE [d |-> ps.d, errno |-> 0, panic |-> ps.panic]

(***************************************************************************)
(* Endpoint operations of Peer, and the registration of a connected-socket *)
(* handler with the poller.                                                *)
(***************************************************************************)
set_endpoint(d, pid, addr) ==
    IF d.store[pid].addr # Some(addr)
    THEN [shutdown_endpoint(d, pid) EXCEPT !.store[pid].addr = Some(addr)]
    ELSE d

\* `connect_ok` is whether the OS lets the socket be created, bound and connected.
connect_endpoint(d, pid, port, fwmark, connect_ok) ==
    IF IsSome(d.store[pid].conn) \/ ~connect_ok
    THEN [d |-> d, ok |-> FALSE, sock |-> None]
    ELSE LET sock == [addr |-> Unwrap(d.store[pid].addr), port |-> port, fwmark |-> fwmark]
         IN [d |-> [d EXCEPT !.store[pid].conn = Some(sock)], ok |-> TRUE, sock |-> Some(sock)]

\* The closure captures the peer, the socket and the peer address; the entry
\* keeps whether the socket is still open.
register_conn_handler(d, peer, udp, peer_addr) ==
    [d EXCEPT !.conn_handlers = d.conn_handlers \cup
                  {[peer |-> peer, peer_addr |-> peer_addr, open |-> TRUE]}]

(***************************************************************************)
(* The Tunnel collaborator's results, and the datagrams a handler is fed.  *)
(***************************************************************************)
TunnResults ==
    [kind : {"Done", "Err", "WriteToNetwork"}, a : {0}]
    \cup [kind : {"WriteToTunnelV4", "WriteToTunnelV6"}, a : 0..(2^AddrBits - 1)]

IsWriteToTunnel(r) == r.kind \in {"WriteToTunnelV4", "WriteToTunnelV6"}
ResultIp(r) == [fam |-> IF r.kind = "WriteToTunnelV4" THEN 4 ELSE 6, a |-> r.a]

\* What is left to draw after the tunnel's first result: the packets queued
\* in the tunnel (flushed after a WriteToNetwork) and whether a connected
\* socket can be opened.
Outcomes ==
    {o \in [result : TunnResults, queued : 0..MaxQueued, connect_ok : BOOLEAN] :
        o.queued > 0 => o.result.kind = "WriteToNetwork"}

PacketTypes == {"HandshakeInit", "HandshakeResponse", "PacketCookieReply", "PacketData"}

\* A receiver index carries the peer index in its high 24 bits.
\* receiver_index >> 8 of the 32-bit receiver index (index << 8) | session:
\* the shift drops the bits of index from 2^24 up.
receiver_index_peer(index) == index % IndexLimit

ReceiverIdx == {i * 256 + 1 : i \in 0..MaxIndex}

\* The datagrams a listener is fed: what verify_packet says of it, the packet
\* type and the peer it names, and what the tunnel would make of it.  The
\* three packet types that carry a receiver index are looked up and handled
\* alike; transport data is drawn with every outcome.
Accepted == [result |-> [kind |-> "Done", a |-> 0], queued |-> 0, connect_ok |-> TRUE]

UdpDatagrams ==
    [src : SockAddrs, verdict : {"cookie", "drop"}, ptype : {"PacketData"},
     anon : {None}, receiver_idx : {1}, outcome : {Accepted}]
    \cup [src : SockAddrs, verdict : {"packet"}, ptype : {"HandshakeInit"},
          anon : {None} \cup {Some(k) : k \in PeerKeys}, receiver_idx : {1},
          outcome : Outcomes]
    \cup [src : SockAddrs, verdict : {"packet"}, ptype : {"PacketData"},
          anon : {None}, receiver_idx : ReceiverIdx, outcome : Outcomes]
    \cup [src : SockAddrs, verdict : {"packet"},
          ptype : {"HandshakeResponse", "PacketCookieReply"},
          anon : {None}, receiver_idx : ReceiverIdx, outcome : {Accepted}]

Quiet ==
    [peer |-> None, handle_verified_packet |-> FALSE, decapsulate |-> FALSE,
     sent |-> <<>>, tun |-> None, set_endpoint |-> FALSE, connected |-> FALSE,
     encapsulate |-> FALSE]

Flushed(to, n) == [i \in 1..n |-> [what |-> "queued", to |-> to]]

\* What the tunnel's result makes a handler send, and write to tun, for `peer`.
result_sent(r, to, queued) ==
    IF r.kind = "WriteToNetwork"
    THEN <<[what |-> "packet", to |-> to]>> \o Flushed(to, queued)
    ELSE <<>>

\* WriteToTunnel written to tun without asking is_allowed_ip.
result_tun_unchecked(peer, r) ==
    IF IsWriteToTunnel(r) THEN Some(ResultIp(r)) ELSE None

result_tun(peer, r) ==
    IF IsWriteToTunnel(r) /\ is_allowed_ip(peer, ResultIp(r)) THEN Some(ResultIp(r)) ELSE None

\* Every packet type looked up by receiver index.
udp_find_peer_by_index(d, dg) ==
    IF (dg.receiver_idx \div 256) \in DOMAIN d.peers_by_idx
    THEN Some(d.peers_by_idx[dg.receiver_idx \div 256]) ELSE None

\* The peer a verified packet is for.
udp_find_peer(d, dg) ==
    IF dg.ptype = "HandshakeInit"
    THEN IF IsSome(dg.anon) /\ Unwrap(dg.anon) \in DOMAIN d.peers
         THEN Some(d.peers[Unwrap(dg.anon)]) ELSE None
    ELSE IF (dg.receiver_idx \div 256) \in DOMAIN d.peers_by_idx
         THEN Some(d.peers_by_idx[dg.receiver_idx \div 256]) ELSE None

\* The endpoint update made whatever handle_verified_packet returned.
udp_verified_always_sets(d, udp, dg) ==
    LET found == udp_find_peer(d, dg)
    IN IF found = None
       THEN [d |-> d, out |-> Quiet]
       ELSE LET pid == Unwrap(found)
                r == dg.outcome.result
                called == [Quiet EXCEPT !.peer = found, !.handle_verified_packet = TRUE]
                d1 == set_endpoint(d, pid, dg.src)
                c == IF d.config.use_connected_socket
                     THEN connect_endpoint(d1, pid, d.listen_port, d.fwmark, dg.outcome.connect_ok)
                     ELSE [d |-> d1, ok |-> FALSE, sock |-> None]
                d2 == IF c.ok THEN register_conn_handler(c.d, pid, Unwrap(c.sock), dg.src)
                      ELSE c.d
            IN [d |-> d2,
                out |-> IF r.kind = "Err" THEN called
                        ELSE [called EXCEPT
                                !.sent = result_sent(r, dg.src, dg.outcome.queued),
                                !.tun = result_tun(d.store[pid], r),
                                !.set_endpoint = TRUE,
                                !.connected = c.ok]]

\* The UDP-ingress handler once verify_packet has returned the parsed
\* packet: peer lookup, handle_verified_packet, flush, endpoint update.
udp_verified(d, udp, dg) ==
    LET found == udp_find_peer(d, dg)
    IN IF found = None
       THEN [d |-> d, out |-> Quiet]
       ELSE LET pid == Unwrap(found)
                r == dg.outcome.result
                called == [Quiet EXCEPT !.peer = found, !.handle_verified_packet = TRUE]
                d1 == set_endpoint(d, pid, dg.src)
                c == IF d.config.use_connected_socket
                     THEN connect_endpoint(d1, pid, d.listen_port, d.fwmark, dg.outcome.connect_ok)
                     ELSE [d |-> d1, ok |-> FALSE, sock |-> None]
                d2 == IF c.ok THEN register_conn_handler(c.d, pid, Unwrap(c.sock), dg.src)
                      ELSE c.d
            IN IF r.kind = "Err"
               THEN [d |-> d, out |-> called]
               ELSE [d |-> d2,
                     out |-> [called EXCEPT
                                !.sent = result_sent(r, dg.src, dg.outcome.queued),
                                !.tun = result_tun(d.store[pid], r),
                                !.set_endpoint = TRUE,
                                !.connected = c.ok]]

\* The datagram handled whatever verdict the rate limiter gave.
udp_datagram_unlimited(d, udp, dg) == udp_verified(d, udp, dg)

\* One datagram of the UDP-ingress handler registered for listener `udp`:
\* the rate limiter's verdict first.
udp_datagram(d, udp, dg) ==
    IF dg.verdict = "cookie"
    THEN [d |-> d, out |-> [Quiet EXCEPT !.sent = <<[what |-> "cookie", to |-> dg.src]>>]]
    ELSE IF dg.verdict = "drop"
    THEN [d |-> d, out |-> Quiet]
    ELSE udp_verified(d, udp, dg)

\* The file descriptor the connected-socket handler `h` was registered for
\* with the poller, and the one its recvmmsg reads: iface.as_raw_fd().
conn_event_fd(h) == [kind |-> "conn", peer |-> h.peer, peer_addr |-> h.peer_addr]
conn_recv_fd(h) == [kind |-> "iface"]

\* One datagram of the connected-socket handler `h` (the closure's captured
\* peer, socket and peer address).
conn_datagram(d, h, outcome) ==
    LET r == outcome.result
    IN [d |-> d,
        out |-> [Quiet EXCEPT
                   !.peer = Some(h.peer),
                   !.decapsulate = TRUE,
                   !.sent = result_sent(r, h.peer_addr, outcome.queued),
                   !.tun = result_tun(d.store[h.peer], r)]]

\* The packets read from tun: Tunn::dst_address gives the destination, or
\* none for what is not an IP packet, and the tunnel's encapsulate result.
EncapResults == {"Done", "Err", "WriteToNetwork"}
TunPackets == [dst : {None} \cup {Some(ip) : ip \in IpAddrs}, result : EncapResults]

\* Where the tun-ingress handler sends the encapsulated packet for `peer`.
iface_sent(peer) ==
    IF IsSome(peer.conn) THEN <<[what |-> "packet", to |-> Unwrap(peer.addr)]>>
    ELSE IF IsSome(peer.addr) THEN <<[what |-> "packet", to |-> Unwrap(peer.addr)]>>
    ELSE <<>>       \* "No endpoint"

\* One packet of the tun-ingress handler.
iface_packet(d, pkt) ==
    IF pkt.dst = None THEN Quiet
    ELSE LET found == trie_find(d.peers_by_ip, Unwrap(pkt.dst))
         IN IF found = None THEN Quiet
            ELSE [Quiet EXCEPT
                    !.peer = found,
                    !.encapsulate = TRUE,
                    !.sent = IF pkt.result = "WriteToNetwork"
                             THEN iface_sent(d.store[Unwrap(found)]) ELSE <<>>]

\* The 250 ms timer handler.  `results` gives, for each peer, what its
\* tunnel's update_timers would return.
TimerResults == {"Done", "ConnectionExpired", "Err", "WriteToNetwork"}

timer_handler(d, results) ==
    IF ~(IsSome(d.udp4) /\ IsSome(d.udp6))
    THEN [d |-> d, called |-> {}, sent |-> {}, action |-> "Continue"]
    ELSE LET called == {p \in MapValues(d.peers) : IsSome(d.store[p].addr)}
             expired == {p \in called : results[p] = "ConnectionExpired"}
             via(addr) == IF addr.fam = 4 THEN Unwrap(d.udp4) ELSE Unwrap(d.udp6)
         IN [d |-> shutdown_endpoints(d, expired),
             called |-> called,
             sent |-> {[peer |-> p, to |-> Unwrap(d.store[p].addr),
                        via |-> via(Unwrap(d.store[p].addr))] :
                          p \in {q \in called : results[q] = "WriteToNetwork"}},
             action |-> "Continue"]

(***************************************************************************)
(* The requests the control channel is fed.                                *)
(***************************************************************************)
OptPriv == {None} \cup {Some(k) : k \in PrivKeys}
OptPort == {None} \cup {Some(p) : p \in Ports}
OptMark == {None} \cup {Some(m) : m \in Marks}

HostIp(fam, a) == [fam |-> fam, addr |-> a, cidr |-> AddrBits]
AnyIp(fam) == [fam |-> fam, addr |-> 0, cidr |-> 0]
AllowedLists ==
    {<<>>, <<HostIp(4, 0)>>, <<AnyIp(4)>>, <<HostIp(4, 1), AnyIp(6)>>}

\* Endpoint, keepalive and preshared key are either all left out or all given.
PeerAdds ==
    {SetPeerOf(k, None, None, None, l, FALSE, FALSE) : k \in PeerKeys, l \in AllowedLists}
    \cup {SetPeerOf(k, Some(1), Some([fam |-> 4, host |-> 1]), Some(1), l, FALSE, FALSE) :
            k \in PeerKeys, l \in AllowedLists}
    \cup {SetPeerOf(k, None, None, None, <<>>, FALSE, TRUE) : k \in PeerKeys}
PeerRemoves == {SetPeerOf(k, None, None, None, <<>>, TRUE, FALSE) : k \in PeerKeys}
PeerUnsets == {SetPeerOf(k, Some(PskUnset), None, None, <<>>, FALSE, FALSE) : k \in PeerKeys}

\* Requests about the key pair and the peers.
PeerSets ==
    {SetOf(k, None, None, r, None, <<>>) : k \in OptPriv, r \in BOOLEAN}
    \cup {SetOf(None, None, None, FALSE, Some(v), <<>>) : v \in {"1", "2"}}
    \cup {SetOf(k, None, None, r, None, <<b>>) :
            k \in OptPriv, r \in BOOLEAN, b \in PeerAdds \cup PeerRemoves \cup PeerUnsets}
    \cup {SetOf(None, None, None, FALSE, None, <<a, b>>) :
            a \in PeerRemoves, b \in PeerAdds}

\* Requests about the key pair, the listeners and the fwmark, with one peer
\* that has an endpoint.
NetPeer == SetPeerOf(1, None, Some([fam |-> 4, host |-> 1]), None, <<HostIp(4, 0)>>, FALSE, FALSE)
NetSets ==
    {SetOf(Some(MaxPriv), None, None, FALSE, None, <<>>)}
    \cup {SetOf(None, Some(p), None, FALSE, None, <<>>) : p \in Ports}
    \cup {SetOf(None, None, Some(m), FALSE, None, <<>>) : m \in Marks}
    \cup {SetOf(None, None, None, TRUE, None, <<>>)}
    \cup {SetOf(None, None, None, FALSE, None, <<b>>) :
            b \in {NetPeer, [NetPeer EXCEPT !.remove = TRUE]}}
    \cup {SetOf(Some(MaxPriv), Some(p), Some(m), FALSE, None, <<NetPeer>>) :
            p \in Ports, m \in Marks}

PeerRequests == {RequestGet} \cup {RequestSet(s) : s \in PeerSets}
NetRequests == {RequestGet} \cup {RequestSet(s) : s \in NetSets}

\* The peers a set may create (every block that does not remove).
Adds(set) == Cardinality({i \in DOMAIN set.peers : ~set.peers[i].remove})

\* The ports the OS may assign when asked for port 0.
Ephemeral == {p \in Ports \ {0} : ~PortInUse(4, p)}

(***************************************************************************)
(* State.                                                                  *)
(***************************************************************************)
VARIABLES
    device,        \* the Device behind Arc<Lock<Device>>
    ctl,           \* the control thread of register_api_handler
    pc,            \* each worker's place in event_loop
    cur,           \* the handler a worker is running
    wants_write,   \* the lock: a writer is announced or active
    yield_notice,  \* the yield notifier is triggered
    exit_notice,   \* the exit notifier is triggered
    obs,           \* the last datagram a handler processed and what it did
    rd,            \* the reader thread of from_read_and_write and its channels
    handle         \* the owner of the DeviceHandle: wait, drop and clean

vars == <<device, ctl, pc, cur, wants_write, yield_notice, exit_notice, obs, rd, handle>>

CtlIdle == [pc |-> "recv", req |-> None, resp |-> None]
NoObs == [handler |-> "none"]
RdIdle ==
    [pc |-> "lines", last |-> FALSE, lines |-> <<>>, nread |-> 0,
     tx |-> None, rx |-> None, handed |-> 0, written |-> <<>>, input |-> <<>>]
\* The handle after DeviceHandle::new: it holds the JoinHandle of every worker
\* thread, nothing was dropped or unlinked and no signal was delivered.
HandleNew ==
    [pc |-> "own", threads |-> NWorkers, dropped |-> FALSE, cleaned |-> FALSE,
     signals |-> {}]

(***************************************************************************)
(* PeerSpec and NetSpec: the control thread serving requests one after     *)
(* another, with the device to itself (api_set runs in the exclusive       *)
(* section).  PeerSpec feeds it the requests about keys and peers; NetSpec *)
(* the requests about listeners and fwmark and, in between requests,       *)
(* datagrams that the UDP-ingress handler accepts.                         *)
(***************************************************************************)
ApiInit ==
    /\ device = Device_new(TRUE)
    /\ ctl = CtlIdle
    /\ pc = [w \in Workers |-> "acquire"]
    /\ cur = [w \in Workers |-> None]
    /\ wants_write = FALSE
    /\ yield_notice = FALSE
    /\ exit_notice = FALSE
    /\ obs = NoObs
    /\ rd = RdIdle
    /\ handle = HandleNew

ApiRecv(r) ==
    /\ ctl.pc = "recv"
    /\ r.type = "set" => device.next_index + Adds(r.set) <= MaxIndex
    /\ ctl' = [pc |-> "handle", req |-> Some(r), resp |-> None]
    /\ UNCHANGED <<device, pc, cur, wants_write, yield_notice, exit_notice, obs, rd, handle>>

ApiGet ==
    /\ ctl.pc = "handle"
    /\ Unwrap(ctl.req).type = "get"
    /\ ctl' = [ctl EXCEPT !.pc = "respond",
                          !.resp = Some([type |-> "get", get |-> api_get(device)])]
    /\ UNCHANGED <<device, pc, cur, wants_write, yield_notice, exit_notice, obs, rd, handle>>

ApiSet(eph) ==
    /\ ctl.pc = "handle"
    /\ Unwrap(ctl.req).type = "set"
    /\ LET r == api_set(Unwrap(ctl.req).set, device, eph)
       IN /\ device' = r.d
          /\ ctl' = IF r.panic
                    THEN [ctl EXCEPT !.pc = "panicked"]
                    ELSE [ctl EXCEPT !.pc = "respond",
                                     !.resp = Some([type |-> "set", errno |-> r.errno])]
    /\ UNCHANGED <<pc, cur, wants_write, yield_notice, exit_notice, obs, rd, handle>>

ApiRespond ==
    /\ ctl.pc = "respond"
    /\ ctl' = CtlIdle
    /\ UNCHANGED <<device, pc, cur, wants_write, yield_notice, exit_notice, obs, rd, handle>>

\* A worker's UDP-ingress handler takes one datagram that the rate limiter
\* passes and the tunnel accepts.
ApiUdp(udp, dg) ==
    /\ ctl.pc = "recv"
    /\ udp \in device.udp_handlers
    /\ IsSome(device.key_pair)
    /\ dg.verdict = "packet" /\ dg.ptype = "PacketData"
    /\ dg.outcome.result.kind = "Done" /\ dg.outcome.queued = 0
    /\ device' = udp_datagram(device, udp, dg).d
    /\ device' # device
    /\ UNCHANGED <<ctl, pc, cur, wants_write, yield_notice, exit_notice, obs, rd, handle>>

\* The poller reports end-of-file on a closed connected socket and the event
\* loop cancels its handler.
ApiEof(h) ==
    /\ ctl.pc = "recv"
    /\ h \in device.conn_handlers
    /\ ~h.open
    /\ device' = drop_unreferenced([device EXCEPT !.conn_handlers = device.conn_handlers \ {h}])
    /\ UNCHANGED <<ctl, pc, cur, wants_write, yield_notice, exit_notice, obs, rd, handle>>

PeerNext ==
    \/ \E r \in PeerRequests : ApiRecv(r)
    \/ ApiGet
    \/ \E eph \in Ephemeral : ApiSet(eph)
    \/ ApiRespond

NetNext ==
    \/ \E r \in NetRequests : ApiRecv(r)
    \/ ApiGet
    \/ \E eph \in Ephemeral : ApiSet(eph)
    \/ ApiRespond
    \/ \E udp \in device.udp_handlers, dg \in UdpDatagrams : ApiUdp(udp, dg)
    \/ \E h \in device.conn_handlers : ApiEof(h)

PeerSpec == ApiInit /\ [][PeerNext]_vars
NetSpec == ApiInit /\ [][NetNext]_vars

(***************************************************************************)
(* SetSpec: the control thread of PeerSpec serving the requests of PeerSpec *)
(* and of NetSpec, so that one device sees requests about keys, listeners,  *)
(* fwmark and peers, alone and combined in one set=1.                       *)
(***************************************************************************)
SetRequests == PeerRequests \cup NetRequests

SetNext ==
    \/ \E r \in SetRequests : ApiRecv(r)
    \/ ApiGet
    \/ \E eph \in Ephemeral : ApiSet(eph)
    \/ ApiRespond

SetSpec == ApiInit /\ [][SetNext]_vars

(***************************************************************************)
(* IndexSpec: the control thread serving the requests of PeerSpec on a     *)
(* device that has handed out all but MaxIndex of its 2^24 peer indices    *)
(* (peers created and removed again) and has no peers left.                *)
(***************************************************************************)
IndexInit ==
    /\ device = [Device_new(TRUE) EXCEPT !.next_index = IndexLimit - MaxIndex]
    /\ ctl = CtlIdle
    /\ pc = [w \in Workers |-> "acquire"]
    /\ cur = [w \in Workers |-> None]
    /\ wants_write = FALSE
    /\ yield_notice = FALSE
    /\ exit_notice = FALSE
    /\ obs = NoObs
    /\ rd = RdIdle
    /\ handle = HandleNew

\* channel.recv(): requests are taken until the indices have run out.
IndexRecv(r) ==
    /\ ctl.pc = "recv"
    /\ device.next_index <= IndexLimit
    /\ ctl' = [pc |-> "handle", req |-> Some(r), resp |-> None]
    /\ UNCHANGED <<device, pc, cur, wants_write, yield_notice, exit_notice, obs, rd, handle>>

IndexNext ==
    \/ \E r \in PeerRequests : IndexRecv(r)
    \/ ApiGet
    \/ \E eph \in Ephemeral : ApiSet(eph)
    \/ ApiRespond

IndexSpec == IndexInit /\ [][IndexNext]_vars

(***************************************************************************)
(* Spec: N worker threads in event_loop and the control thread of          *)
(* register_api_handler, sharing the device through Lock<Device>.          *)
(*                                                                         *)
(* Lock: read() waits while a writer is announced; try_writeable announces *)
(* the writer, calls trigger_yield, waits until every other read guard is  *)
(* dropped, runs the closure and lets readers in again.                    *)
(* EventPoll: wait() returns one ready handler; a triggered notifier stays *)
(* ready for every waiting thread until stop_notification.                 *)
(***************************************************************************)
HoldsGuard(p) == p \in {"wait", "handler"}

Readers == {w \in Workers : HoldsGuard(pc[w])}

\* The handlers EventPoll::wait may return Ok for.
ReadyHandlers(d) ==
    {[kind |-> "udp", udp |-> s] : s \in d.udp_handlers}
    \cup {[kind |-> "conn", h |-> h] : h \in {x \in d.conn_handlers : x.open}}
    \cup {[kind |-> "iface"], [kind |-> "timer"]}
    \cup {[kind |-> "signal", sig |-> sig] : sig \in d.signal_handlers \cap handle.signals}

\* The expectations a handler starts with: the UDP-ingress handler's
\* expect("Key not set") and the tun-ingress handler's expect("Not connected").
handler_panics(d, h) ==
    \/ h.kind = "udp" /\ ~IsSome(d.key_pair)
    \/ h.kind = "iface" /\ ~(IsSome(d.udp4) /\ IsSome(d.udp6))

\* The requests the control channel carries in Spec: bring the device up with
\* one peer, replace or remove the peers, read the configuration.
Requests ==
    {RequestGet,
     RequestSet(SetOf(Some(MaxPriv), Some(1), None, FALSE, None, <<NetPeer>>)),
     RequestSet(SetOf(None, None, None, TRUE, None, <<>>)),
     RequestSet(SetOf(None, None, None, FALSE, None, <<[NetPeer EXCEPT !.remove = TRUE]>>))}

\* The datagram a UDP-ingress invocation reads in Spec: transport data for a
\* peer index, from the peer's address, that the tunnel accepts.
DataFrom(idx) ==
    [src |-> [fam |-> 4, host |-> 1], verdict |-> "packet", ptype |-> "PacketData",
     anon |-> None, receiver_idx |-> idx,
     outcome |-> [result |-> [kind |-> "Done", a |-> 0], queued |-> 0, connect_ok |-> TRUE]]

Init == ApiInit

\* event_loop, `let mut device_lock = device.read()`.
read(w) ==
    /\ pc[w] = "acquire"
    /\ ~wants_write
    /\ pc' = [pc EXCEPT ![w] = "wait"]
    /\ UNCHANGED <<device, ctl, cur, wants_write, yield_notice, exit_notice, obs, rd, handle>>

\* A worker handed the yield notifier goes on waiting, guard in hand.
WaitYieldIgnored(w) ==
    /\ pc[w] = "wait"
    /\ yield_notice
    /\ UNCHANGED vars

\* queue.wait() returns the yield notifier's handler: Action::Yield, break.
WaitYield(w) ==
    /\ pc[w] = "wait"
    /\ yield_notice
    /\ pc' = [pc EXCEPT ![w] = "acquire"]
    /\ UNCHANGED <<device, ctl, cur, wants_write, yield_notice, exit_notice, obs, rd, handle>>

\* queue.wait() returns the exit notifier's handler: Action::Exit,
\* trigger_exit, return.
WaitExit(w) ==
    /\ pc[w] = "wait"
    /\ exit_notice
    /\ pc' = [pc EXCEPT ![w] = "done"]
    /\ UNCHANGED <<device, ctl, cur, wants_write, yield_notice, exit_notice, obs, rd, handle>>

\* queue.wait() returns WaitResult::Ok(handler): the invocation starts.
WaitOk(w, h) ==
    /\ pc[w] = "wait"
    /\ h \in ReadyHandlers(device)
    /\ pc' = [pc EXCEPT ![w] = "handler"]
    /\ cur' = [cur EXCEPT ![w] = Some(h)]
    /\ UNCHANGED <<device, ctl, wants_write, yield_notice, exit_notice, obs, rd, handle>>

\* queue.wait() returns WaitResult::EoF(handler) for a closed connected
\* socket: handler.cancel().
WaitEof(w, h) ==
    /\ pc[w] = "wait"
    /\ h \in device.conn_handlers
    /\ ~h.open
    /\ device' = drop_unreferenced([device EXCEPT !.conn_handlers = device.conn_handlers \ {h}])
    /\ UNCHANGED <<ctl, pc, cur, wants_write, yield_notice, exit_notice, obs, rd, handle>>

\* The invoked handler runs and returns Action::Continue, or panics on its
\* expectation and the thread ends.  The UDP-ingress handler reads one
\* datagram; the signal handlers only ever return Action::Exit.
HandlerContinue(w, idx) ==
    /\ pc[w] = "handler"
    /\ Unwrap(cur[w]).kind # "signal"
    /\ LET h == Unwrap(cur[w])
       IN IF handler_panics(device, h)
          THEN /\ pc' = [pc EXCEPT ![w] = "panicked"]
               /\ UNCHANGED device
          ELSE IF h.kind = "udp"
          THEN /\ pc' = [pc EXCEPT ![w] = "wait"]
               /\ device' = udp_datagram(device, h.udp, DataFrom(idx)).d
          ELSE /\ pc' = [pc EXCEPT ![w] = "wait"]
               /\ UNCHANGED device
    /\ cur' = [cur EXCEPT ![w] = None]
    /\ UNCHANGED <<ctl, wants_write, yield_notice, exit_notice, obs, rd, handle>>

\* Action::Exit ending the worker without trigger_exit.
HandlerExitUntriggered(w) ==
    /\ pc[w] = "handler"
    /\ Unwrap(cur[w]).kind \in {"conn", "iface", "signal"}
    /\ ~handler_panics(device, Unwrap(cur[w]))
    /\ pc' = [pc EXCEPT ![w] = "done"]
    /\ cur' = [cur EXCEPT ![w] = None]
    /\ UNCHANGED <<device, ctl, wants_write, yield_notice, exit_notice, obs, rd, handle>>

\* The connected-socket and tun-ingress handlers return Action::Exit on a
\* read error, the signal handlers always: trigger_exit, return.
HandlerExit(w) ==
    /\ pc[w] = "handler"
    /\ Unwrap(cur[w]).kind \in {"conn", "iface", "signal"}
    /\ ~handler_panics(device, Unwrap(cur[w]))
    /\ pc' = [pc EXCEPT ![w] = "done"]
    /\ cur' = [cur EXCEPT ![w] = None]
    /\ exit_notice' = TRUE
    /\ UNCHANGED <<device, ctl, wants_write, yield_notice, obs, rd, handle>>

\* register_api_handler: channel.recv() hands over the next request.
recv(r) ==
    /\ ctl.pc = "recv"
    /\ r.type = "set" => device.next_index + Adds(r.set) <= MaxIndex
    /\ ctl' = [pc |-> "read", req |-> Some(r), resp |-> None]
    /\ UNCHANGED <<device, pc, cur, wants_write, yield_notice, exit_notice, obs, rd, handle>>

\* `device.read()`, then api_get under the read guard, or api_set_locked up
\* to the point where try_writeable has announced the writer and called
\* trigger_yield.
CtlRead ==
    /\ ctl.pc = "read"
    /\ ~wants_write
    /\ IF Unwrap(ctl.req).type = "get"
       THEN /\ ctl' = [ctl EXCEPT !.pc = "respond",
                                  !.resp = Some([type |-> "get", get |-> api_get(device)])]
            /\ UNCHANGED <<wants_write, yield_notice>>
       ELSE /\ ctl' = [ctl EXCEPT !.pc = "drain"]
            /\ wants_write' = TRUE
            /\ yield_notice' = TRUE
    /\ UNCHANGED <<device, pc, cur, exit_notice, obs, rd, handle>>

\* try_writeable proceeds to its closure without waiting for the readers.
api_set_unlocked ==
    /\ ctl.pc = "drain"
    /\ ctl' = [ctl EXCEPT !.pc = "exclusive"]
    /\ UNCHANGED <<device, pc, cur, wants_write, yield_notice, exit_notice, obs, rd, handle>>

\* api_set_locked: try_writeable has waited until every other read guard is
\* dropped and enters its closure.
api_set_locked ==
    /\ ctl.pc = "drain"
    /\ Readers = {}
    /\ ctl' = [ctl EXCEPT !.pc = "exclusive"]
    /\ UNCHANGED <<device, pc, cur, wants_write, yield_notice, exit_notice, obs, rd, handle>>

\* The closure of api_set_locked: cancel_yield, api_set; then readers are let
\* in again.  When api_set panics the closure is left by unwinding, and
\* whether the lock lets readers in again is not fixed by its contract.
CtlSet(eph, released) ==
    /\ ctl.pc = "exclusive"
    /\ LET r == api_set(Unwrap(ctl.req).set, device, eph)
       IN /\ device' = r.d
          /\ ctl' = IF r.panic
                    THEN [ctl EXCEPT !.pc = "panicked"]
                    ELSE [ctl EXCEPT !.pc = "respond",
                                     !.resp = Some([type |-> "set", errno |-> r.errno])]
          /\ wants_write' = (r.panic /\ ~released)
    /\ yield_notice' = FALSE
    /\ UNCHANGED <<pc, cur, exit_notice, obs, rd, handle>>

\* respond(response); the read guard is dropped at the end of the iteration.
respond ==
    /\ ctl.pc = "respond"
    /\ ctl' = CtlIdle
    /\ UNCHANGED <<device, pc, cur, wants_write, yield_notice, exit_notice, obs, rd, handle>>

\* DeviceHandle::drop: trigger_exit under a read guard, then clean unlinks
\* the cleanup paths.  The handle is dropped by its owner, also when the
\* owner unwinds from a panic, and not while wait borrows it.
Drop ==
    /\ handle.pc # "wait"
    /\ ~handle.dropped
    /\ ~wants_write
    /\ exit_notice' = TRUE
    /\ handle' = [handle EXCEPT !.dropped = TRUE, !.cleaned = TRUE]
    /\ UNCHANGED <<device, ctl, pc, cur, wants_write, yield_notice, obs, rd>>

Worker(w) ==
    \/ read(w)
    \/ WaitYield(w)
    \/ WaitExit(w)
    \/ \E h \in ReadyHandlers(device) : WaitOk(w, h)
    \/ \E h \in device.conn_handlers : WaitEof(w, h)
    \/ \E idx \in ReceiverIdx : HandlerContinue(w, idx)
    \/ HandlerExit(w)

Control ==
    \/ \E r \in Requests : recv(r)
    \/ CtlRead
    \/ api_set_locked
    \/ \E eph \in Ephemeral, released \in BOOLEAN : CtlSet(eph, released)
    \/ respond

Next ==
    \/ \E w \in Workers : Worker(w)
    \/ Control
    \/ Drop

Spec == Init /\ [][Next]_vars

\* FairSpec: every thread that can take a step of its own does so, a handler
\* that was invoked returns, and a waiting worker is eventually handed a
\* notifier that stays triggered.
Fairness ==
    /\ WF_vars(CtlRead)
    /\ WF_vars(api_set_locked)
    /\ WF_vars(\E eph \in Ephemeral, released \in BOOLEAN : CtlSet(eph, released))
    /\ WF_vars(respond)
    /\ \A w \in Workers :
          /\ WF_vars(read(w))
          /\ WF_vars((\E idx \in ReceiverIdx : HandlerContinue(w, idx)) \/ HandlerExit(w))
          /\ SF_vars(WaitYield(w))

FairSpec == Spec /\ Fairness

(***************************************************************************)
(* IfaceSpec: Spec with the tun-ingress handler's way out of its read loop *)
(* made explicit.  `obs` keeps, for the last tun-ingress invocation that    *)
(* returned, the worker, what iface.read gave when the loop was left, and   *)
(* the action returned.                                                     *)
(***************************************************************************)
\* How the loop `for _ in 0..MAX_ITR` is left: by a read that fails, or
\* after MAX_ITR passes ("Exhausted").  IfaceRead(errno) is split by the
\* error kind of errno; "Unexpected" is any other Error.
IfaceReads == {"WouldBlock", "Interrupted", "Fatal", "Unexpected", "Exhausted"}

iface_read_action(res) ==
    IF res \in {"WouldBlock", "Interrupted"} THEN "Continue"   \* break
    ELSE IF res = "Exhausted" THEN "Continue"
    ELSE "Exit"

IfaceReturn(w, res) ==
    /\ pc[w] = "handler"
    /\ Unwrap(cur[w]).kind = "iface"
    /\ ~handler_panics(device, Unwrap(cur[w]))
    /\ LET action == iface_read_action(res)
       IN /\ pc' = [pc EXCEPT ![w] = IF action = "Exit" THEN "done" ELSE "wait"]
          /\ exit_notice' = (exit_notice \/ action = "Exit")
          /\ obs' = [handler |-> "iface", worker |-> w, read |-> res, action |-> action]
    /\ cur' = [cur EXCEPT ![w] = None]
    /\ UNCHANGED <<device, ctl, wants_write, yield_notice, rd, handle>>

\* The other handlers, and the tun-ingress handler's expectation.
IfaceOther(w) ==
    /\ pc[w] = "handler"
    /\ Unwrap(cur[w]).kind # "iface" \/ handler_panics(device, Unwrap(cur[w]))
    /\ (\E idx \in ReceiverIdx : HandlerContinue(w, idx)) \/ HandlerExit(w)

IfaceWorker(w) ==
    \/ read(w)
    \/ WaitYield(w)
    \/ WaitExit(w)
    \/ \E h \in ReadyHandlers(device) : WaitOk(w, h)
    \/ \E h \in device.conn_handlers : WaitEof(w, h)
    \/ IfaceOther(w)
    \/ \E res \in IfaceReads : IfaceReturn(w, res)

IfaceNext ==
    \/ \E w \in Workers : IfaceWorker(w)
    \/ Control

IfaceFairness ==
    /\ WF_vars(CtlRead)
    /\ WF_vars(api_set_locked)
    /\ WF_vars(\E eph \in Ephemeral, released \in BOOLEAN : CtlSet(eph, released))
    /\ WF_vars(respond)
    /\ \A w \in Workers :
          /\ SF_vars(read(w))
          /\ WF_vars(IfaceOther(w) \/ \E res \in IfaceReads : IfaceReturn(w, res))
          /\ SF_vars(WaitYield(w))
          /\ SF_vars(WaitExit(w))

IfaceSpec == Init /\ [][IfaceNext]_vars /\ IfaceFairness

(***************************************************************************)
(* ExitSpec: Spec together with the owner of the DeviceHandle, who may     *)
(* call wait, and the signals delivered to the process.                    *)
(***************************************************************************)
\* DeviceHandle::wait is called.
wait ==
    /\ handle.pc = "own"
    /\ ~handle.dropped
    /\ handle' = [handle EXCEPT !.pc = "wait"]
    /\ UNCHANGED <<device, ctl, pc, cur, wants_write, yield_notice, exit_notice, obs, rd>>

\* One turn of wait's loop: threads.pop(), thread.join().unwrap().  join
\* returns when the thread has ended, with Err when it ended by a panic.
join ==
    /\ handle.pc = "wait"
    /\ LET t == handle.threads
       IN /\ pc[t] \in {"done", "panicked"}
          /\ handle' = IF pc[t] = "panicked"
                       THEN [handle EXCEPT !.pc = "panicked"]
                       ELSE [handle EXCEPT !.threads = t - 1,
                                           !.pc = IF t = 1 THEN "returned" ELSE "wait"]
    /\ UNCHANGED <<device, ctl, pc, cur, wants_write, yield_notice, exit_notice, obs, rd>>

\* SIGINT or SIGTERM is delivered to the process.
Signal(sig) ==
    /\ Cardinality(handle.signals) < MaxSignals
    /\ sig \notin handle.signals
    /\ handle' = [handle EXCEPT !.signals = @ \cup {sig}]
    /\ UNCHANGED <<device, ctl, pc, cur, wants_write, yield_notice, exit_notice, obs, rd>>

ExitNext ==
    \/ Next
    \/ wait
    \/ join
    \/ \E sig \in Signals : Signal(sig)

\* A waiting worker is eventually handed the exit notifier once it is
\* triggered, the read-biased lock lets a worker in between two writers, and
\* the owner's join returns once the thread has ended.
ExitFairness ==
    /\ Fairness
    /\ \A w \in Workers : SF_vars(WaitExit(w)) /\ SF_vars(read(w))
    /\ WF_vars(join)

ExitSpec == Init /\ [][ExitNext]_vars /\ ExitFairness

(***************************************************************************)
(* PktSpec: a device that a set=1 has brought up (key pair, listeners, two *)
(* peers), and the UDP-ingress and connected-socket handlers taking one    *)
(* datagram after another.  `obs` keeps the last datagram and what the     *)
(* handler did with it.                                                    *)
(***************************************************************************)
PktPeer(k, l) == SetPeerOf(k, None, None, None, l, FALSE, FALSE)

PktSets ==
    {SetOf(Some(MaxPriv), Some(0), None, FALSE, None,
           <<PktPeer(1, l), PktPeer(2, <<AnyIp(4)>>)>>) : l \in AllowedLists}

PktInit ==
    /\ \E s \in PktSets, c \in BOOLEAN, eph \in Ephemeral :
          LET r == api_set(s, Device_new(c), eph)
          IN ~r.panic /\ r.errno = 0 /\ device = r.d
    /\ ctl = CtlIdle
    /\ pc = [w \in Workers |-> "acquire"]
    /\ cur = [w \in Workers |-> None]
    /\ wants_write = FALSE
    /\ yield_notice = FALSE
    /\ exit_notice = FALSE
    /\ obs = NoObs
    /\ rd = RdIdle
    /\ handle = HandleNew

\* A listener receives from sources of its own address family.
PktUdp(udp, dg) ==
    /\ udp \in device.udp_handlers
    /\ udp.fam = dg.src.fam
    /\ IsSome(device.key_pair)
    /\ LET r == udp_datagram(device, udp, dg)
       IN /\ device' = r.d
          /\ obs' = [handler |-> "udp", dg |-> dg, out |-> r.out]
    /\ UNCHANGED <<ctl, pc, cur, wants_write, yield_notice, exit_notice, rd, handle>>

PktConn(h, outcome) ==
    /\ h \in device.conn_handlers
    /\ h.open
    /\ LET r == conn_datagram(device, h, outcome)
       IN /\ device' = r.d
          /\ obs' = [handler |-> "conn", dg |-> [outcome |-> outcome], out |-> r.out,
                     event_fd |-> conn_event_fd(h), recv_fd |-> conn_recv_fd(h),
                     action |-> "Continue"]
    /\ UNCHANGED <<ctl, pc, cur, wants_write, yield_notice, exit_notice, rd, handle>>

\* recvmmsg fails with an error other than WouldBlock or Interrupted: the
\* connected-socket handler returns Action::Exit without a decapsulate call.
PktConnFatal(h) ==
    /\ h \in device.conn_handlers
    /\ h.open
    /\ obs' = [handler |-> "conn", dg |-> [outcome |-> Accepted], out |-> Quiet,
               event_fd |-> conn_event_fd(h), recv_fd |-> conn_recv_fd(h),
               action |-> "Exit"]
    /\ UNCHANGED <<device, ctl, pc, cur, wants_write, yield_notice, exit_notice, rd, handle>>

\* The datagrams of PktSpec come from IPv4 sources: an endpoint, once
\* learned, stays, and so does the connected socket opened for it.
PktDatagrams == {dg \in UdpDatagrams : dg.src.fam = 4}

PktNext ==
    \/ \E udp \in device.udp_handlers, dg \in PktDatagrams : PktUdp(udp, dg)
    \/ \E h \in device.conn_handlers, outcome \in Outcomes : PktConn(h, outcome)
    \/ \E h \in device.conn_handlers : PktConnFatal(h)

PktSpec == PktInit /\ [][PktNext]_vars

(***************************************************************************)
(* RemoveSpec: the device of PktSpec, whose peers get endpoints and         *)
(* connected sockets from the datagrams they send, and the control thread   *)
(* serving set=1 requests that remove one peer.                             *)
(***************************************************************************)
RemoveSet(k) ==
    SetOf(None, None, None, FALSE, None,
          <<SetPeerOf(k, None, None, None, <<>>, TRUE, FALSE)>>)

RemoveNext ==
    \/ \E k \in PeerKeys : ApiRecv(RequestSet(RemoveSet(k)))
    \/ \E eph \in Ephemeral : ApiSet(eph)
    \/ ApiRespond
    \/ \E udp \in device.udp_handlers, dg \in UdpDatagrams : ApiUdp(udp, dg)
    \/ \E h \in device.conn_handlers : ApiEof(h)

RemoveSpec == PktInit /\ [][RemoveNext]_vars

(***************************************************************************)
(* TunSpec: the device of RemoveSpec, and the tun-ingress handler reading   *)
(* packets for every destination address.                                   *)
(***************************************************************************)
TunIface(pkt) ==
    /\ IsSome(device.udp4) /\ IsSome(device.udp6)
    /\ obs' = [handler |-> "iface", dg |-> pkt, out |-> iface_packet(device, pkt)]
    /\ UNCHANGED <<device, ctl, pc, cur, wants_write, yield_notice, exit_notice, rd, handle>>

TunNext ==
    \/ RemoveNext
    \/ \E pkt \in TunPackets : TunIface(pkt)

TunSpec == PktInit /\ [][TunNext]_vars

(***************************************************************************)
(* ReplaceSpec: the device of PktSpec, with its two peers, and the control *)
(* thread serving set=1 requests with replace_peers=true followed by up to *)
(* MaxReplaced peer blocks.                                                *)
(***************************************************************************)
ReplaceBlocks ==
    {PktPeer(k, l) : k \in PeerKeys, l \in AllowedLists} \cup PeerRemoves

ReplaceLists ==
    UNION {[1..n -> ReplaceBlocks] : n \in 0..MaxReplaced}

ReplaceSets == {SetOf(None, None, None, TRUE, None, L) : L \in ReplaceLists}

\* channel.recv(): MaxReplaced more peers are created after the first two.
ReplaceRecv(r) ==
    /\ ctl.pc = "recv"
    /\ device.next_index + Adds(r.set) <= MaxIndex + MaxReplaced
    /\ ctl' = [pc |-> "handle", req |-> Some(r), resp |-> None]
    /\ UNCHANGED <<device, pc, cur, wants_write, yield_notice, exit_notice, obs, rd, handle>>

ReplaceNext ==
    \/ \E s \in ReplaceSets : ReplaceRecv(RequestSet(s))
    \/ \E eph \in Ephemeral : ApiSet(eph)
    \/ ApiRespond

ReplaceSpec == PktInit /\ [][ReplaceNext]_vars

(***************************************************************************)
(* ClearSpec: replace_peers requests, the peers' datagrams from one IPv4    *)
(* source, which open connected sockets, and the connected-socket handlers  *)
(* serving them.  No endpoint changes, so no socket is closed for that.     *)
(***************************************************************************)
ClearSets ==
    {SetOf(None, None, None, TRUE, None, L) :
        L \in {<<>>, <<PktPeer(1, <<AnyIp(4)>>)>>}}

\* What a connected-socket handler is fed: data for each inner address.
ClearOutcomes == {o \in Outcomes : IsWriteToTunnel(o.result) /\ o.connect_ok}

ClearNext ==
    \/ \E s \in ClearSets : ReplaceRecv(RequestSet(s))
    \/ \E eph \in Ephemeral : ApiSet(eph)
    \/ ApiRespond
    \/ \E udp \in device.udp_handlers, dg \in PktDatagrams : ApiUdp(udp, dg)
    \/ \E h \in device.conn_handlers, outcome \in ClearOutcomes : PktConn(h, outcome)

ClearSpec == PktInit /\ [][ClearNext]_vars

(***************************************************************************)
(* ConnSpec: the workers of a device that a set=1 has brought up with      *)
(* connected sockets enabled, each inside the UDP-ingress handler at the   *)
(* end of a datagram it accepted for a peer: set_endpoint, connect_endpoint *)
(* and register_conn_handler are three steps that the workers interleave   *)
(* under their read guards.  The timer handler expires connections and the *)
(* event loop cancels the handlers of sockets that were shut down.         *)
(* cur[w] keeps the peer and source of the worker's datagram and whether   *)
(* the socket it has connected, and not yet registered, is still open.     *)
(***************************************************************************)
ConnSet ==
    SetOf(Some(MaxPriv), Some(0), None, FALSE, None,
          <<PktPeer(1, <<HostIp(4, 0)>>), PktPeer(2, <<AnyIp(4)>>)>>)

ConnInit ==
    /\ \E eph \in Ephemeral :
          LET r == api_set(ConnSet, Device_new(TRUE), eph)
          IN ~r.panic /\ r.errno = 0 /\ device = r.d
    /\ ctl = CtlIdle
    /\ pc = [w \in Workers |-> "wait"]
    /\ cur = [w \in Workers |-> None]
    /\ wants_write = FALSE
    /\ yield_notice = FALSE
    /\ exit_notice = FALSE
    /\ obs = NoObs
    /\ rd = RdIdle
    /\ handle = HandleNew

\* A socket of `pid` was shut down in the step from d to d1: the workers that
\* hold it, connected and not yet registered, hold a closed socket.
severed(d, d1, pid) ==
    [v \in Workers |->
        IF /\ IsSome(cur[v]) /\ Unwrap(cur[v]).peer = pid
           /\ IsSome(d.store[pid].conn) /\ ~IsSome(d1.store[pid].conn)
        THEN Some([Unwrap(cur[v]) EXCEPT !.alive = FALSE])
        ELSE cur[v]]

\* The handler has a datagram from `src` that the peer's tunnel accepted.
ConnAccept(w, pid, src) ==
    /\ pc[w] = "wait"
    /\ pid \in MapValues(device.peers)
    /\ pc' = [pc EXCEPT ![w] = "set_endpoint"]
    /\ cur' = [cur EXCEPT ![w] = Some([kind |-> "udp", peer |-> pid, src |-> src,
                                       alive |-> FALSE])]
    /\ UNCHANGED <<device, ctl, wants_write, yield_notice, exit_notice, obs, rd, handle>>

\* peer.set_endpoint(addr)
ConnSetEndpoint(w) ==
    /\ pc[w] = "set_endpoint"
    /\ LET c == Unwrap(cur[w])
           d1 == set_endpoint(device, c.peer, c.src)
       IN /\ device' = d1
          /\ cur' = IF device.config.use_connected_socket
                    THEN severed(device, d1, c.peer)
                    ELSE [severed(device, d1, c.peer) EXCEPT ![w] = None]
    /\ pc' = [pc EXCEPT ![w] = IF device.config.use_connected_socket
                               THEN "connect_endpoint" ELSE "wait"]
    /\ UNCHANGED <<ctl, wants_write, yield_notice, exit_notice, obs, rd, handle>>

\* A handler registered whether or not connect_endpoint returned a socket.
ConnConnectRegardless(w, connect_ok) ==
    /\ pc[w] = "connect_endpoint"
    /\ LET c == Unwrap(cur[w])
           r == connect_endpoint(device, c.peer, device.listen_port, device.fwmark,
                                 connect_ok)
       IN /\ device' = r.d
          /\ pc' = [pc EXCEPT ![w] = "register_conn_handler"]
          /\ cur' = [cur EXCEPT ![w] = Some([c EXCEPT !.alive = IsSome(r.d.store[c.peer].conn)])]
    /\ UNCHANGED <<ctl, wants_write, yield_notice, exit_notice, obs, rd, handle>>

\* if let Ok(sock) = peer.connect_endpoint(d.listen_port, d.fwmark)
ConnConnect(w, connect_ok) ==
    /\ pc[w] = "connect_endpoint"
    /\ LET c == Unwrap(cur[w])
           r == connect_endpoint(device, c.peer, device.listen_port, device.fwmark,
                                 connect_ok)
       IN /\ device' = r.d
          /\ pc' = [pc EXCEPT ![w] = IF r.ok THEN "register_conn_handler" ELSE "wait"]
          /\ cur' = [cur EXCEPT ![w] = IF r.ok THEN Some([c EXCEPT !.alive = TRUE])
                                       ELSE None]
    /\ UNCHANGED <<ctl, wants_write, yield_notice, exit_notice, obs, rd, handle>>

\* d.register_conn_handler(Arc::clone(peer), sock, ip_addr): the handler is
\* registered for the socket the worker holds, open or shut down meanwhile.
ConnRegister(w) ==
    /\ pc[w] = "register_conn_handler"
    /\ LET c == Unwrap(cur[w])
       IN device' = IF c.alive
                    THEN register_conn_handler(device, c.peer,
                                               Unwrap(device.store[c.peer].conn), c.src)
                    ELSE [device EXCEPT !.conn_handlers = @ \cup
                             {[peer |-> c.peer, peer_addr |-> c.src, open |-> FALSE]}]
    /\ pc' = [pc EXCEPT ![w] = "wait"]
    /\ cur' = [cur EXCEPT ![w] = None]
    /\ UNCHANGED <<ctl, wants_write, yield_notice, exit_notice, obs, rd, handle>>

\* The 250 ms timer handler on worker w: update_timers of a peer that has an
\* endpoint address returns ConnectionExpired, peer.shutdown_endpoint().
ConnExpired(w, pid) ==
    /\ pc[w] = "wait"
    /\ IsSome(device.udp4) /\ IsSome(device.udp6)
    /\ pid \in MapValues(device.peers)
    /\ IsSome(device.store[pid].addr)
    /\ IsSome(device.store[pid].conn)
    /\ device' = shutdown_endpoint(device, pid)
    /\ cur' = severed(device, shutdown_endpoint(device, pid), pid)
    /\ UNCHANGED <<ctl, pc, wants_write, yield_notice, exit_notice, obs, rd, handle>>

\* queue.wait() returns WaitResult::EoF for a socket that was shut down:
\* handler.cancel().
ConnEof(w, h) ==
    /\ pc[w] = "wait"
    /\ h \in device.conn_handlers
    /\ ~h.open
    /\ device' = drop_unreferenced([device EXCEPT !.conn_handlers = device.conn_handlers \ {h}])
    /\ UNCHANGED <<ctl, pc, cur, wants_write, yield_notice, exit_notice, obs, rd, handle>>

ConnNext ==
    \E w \in Workers :
        \/ \E pid \in MapValues(device.peers), src \in SockAddrs : ConnAccept(w, pid, src)
        \/ ConnSetEndpoint(w)
        \/ \E connect_ok \in BOOLEAN : ConnConnect(w, connect_ok)
        \/ ConnRegister(w)
        \/ \E pid \in MapValues(device.peers) : ConnExpired(w, pid)
        \/ \E h \in device.conn_handlers : ConnEof(w, h)

ConnSpec == ConnInit /\ [][ConnNext]_vars

(***************************************************************************)
(* TimerSpec: a device that set=1 requests give a key, two peers (one with *)
(* an endpoint) and listeners, whose peers learn endpoints and get          *)
(* connected sockets from the datagrams they send, and the 250 ms timer     *)
(* handler.  `obs` keeps what the last tick did, and `odd` whether an odd   *)
(* number of ticks has passed.                                              *)
(***************************************************************************)
TimerSets ==
    {SetOf(Some(MaxPriv), None, None, FALSE, None,
           <<NetPeer, PktPeer(2, <<AnyIp(4)>>)>>)}
    \cup {SetOf(None, Some(p), None, FALSE, None, <<>>) : p \in Ports}

TimerTick(results) ==
    /\ ctl.pc = "recv"
    /\ LET r == timer_handler(device, results)
       IN /\ device' = r.d
          /\ obs' = [handler |-> "timer", results |-> results, called |-> r.called,
                     sent |-> r.sent, action |-> r.action,
                     odd |-> IF obs.handler = "timer" THEN ~obs.odd ELSE TRUE]
    /\ UNCHANGED <<ctl, pc, cur, wants_write, yield_notice, exit_notice, rd, handle>>

TimerNext ==
    \/ \E s \in TimerSets : ApiRecv(RequestSet(s))
    \/ \E eph \in Ephemeral : ApiSet(eph)
    \/ ApiRespond
    \/ \E udp \in device.udp_handlers, dg \in UdpDatagrams : ApiUdp(udp, dg)
    \/ \E h \in device.conn_handlers : ApiEof(h)
    \/ \E results \in [MapValues(device.peers) -> TimerResults] : TimerTick(results)

TimerSpec == ApiInit /\ [][TimerNext]_vars

(***************************************************************************)
(* OrderSpec: the workers in the tun-ingress handler, statement by          *)
(* statement.  The tun file descriptor is level-triggered and shared, so    *)
(* every worker's wait() can return its handler while packets are pending.  *)
(* Packets are numbered in the order they are read from tun; `obs` logs the  *)
(* encapsulate calls and the packets handed to the sending socket.          *)
(***************************************************************************)
OrderInit ==
    /\ \E eph \in Ephemeral :
          LET r == api_set(ConnSet, Device_new(FALSE), eph)
          IN ~r.panic /\ r.errno = 0
             /\ device = set_endpoint(set_endpoint(r.d, r.d.peers[1], [fam |-> 4, host |-> 1]),
                                      r.d.peers[2], [fam |-> 4, host |-> 1])
    /\ ctl = CtlIdle
    /\ pc = [w \in Workers |-> "wait"]
    /\ cur = [w \in Workers |-> None]
    /\ wants_write = FALSE
    /\ yield_notice = FALSE
    /\ exit_notice = FALSE
    /\ obs = [handler |-> "iface", nread |-> 0, encapsulated |-> <<>>, sent |-> <<>>]
    /\ rd = RdIdle
    /\ handle = HandleNew

\* queue.wait() returns the tun-ingress handler.
OrderWait(w) ==
    /\ pc[w] = "wait"
    /\ obs.nread < MaxTun
    /\ IsSome(device.udp4) /\ IsSome(device.udp6)
    /\ pc' = [pc EXCEPT ![w] = "iface_read"]
    /\ UNCHANGED <<device, ctl, cur, wants_write, yield_notice, exit_notice, obs, rd, handle>>

\* iface.read, dst_address and peers.find of one iteration.
OrderRead(w, dst) ==
    /\ pc[w] = "iface_read"
    /\ obs.nread < MaxTun
    /\ obs' = [obs EXCEPT !.nread = obs.nread + 1]
    /\ LET found == IF dst = None THEN None
                    ELSE trie_find(device.peers_by_ip, Unwrap(dst))
       IN IF found = None
          THEN UNCHANGED <<pc, cur>>
          ELSE /\ pc' = [pc EXCEPT ![w] = "encapsulate"]
               /\ cur' = [cur EXCEPT ![w] = Some([kind |-> "iface", n |-> obs.nread + 1,
                                                  peer |-> Unwrap(found)])]
    /\ UNCHANGED <<device, ctl, wants_write, yield_notice, exit_notice, rd, handle>>

\* iface.read returns WouldBlock: the handler returns Action::Continue.
OrderWouldBlock(w) ==
    /\ pc[w] = "iface_read"
    /\ pc' = [pc EXCEPT ![w] = "wait"]
    /\ UNCHANGED <<device, ctl, cur, wants_write, yield_notice, exit_notice, obs, rd, handle>>

\* peer.tunnel.encapsulate(src, dst_buf).
OrderEncapsulate(w, result) ==
    /\ pc[w] = "encapsulate"
    /\ obs' = [obs EXCEPT !.encapsulated =
                  Append(@, [n |-> Unwrap(cur[w]).n, peer |-> Unwrap(cur[w]).peer])]
    /\ IF result = "WriteToNetwork" /\ iface_sent(device.store[Unwrap(cur[w]).peer]) # <<>>
       THEN pc' = [pc EXCEPT ![w] = "send"] /\ UNCHANGED cur
       ELSE pc' = [pc EXCEPT ![w] = "iface_read"] /\ cur' = [cur EXCEPT ![w] = None]
    /\ UNCHANGED <<device, ctl, wants_write, yield_notice, exit_notice, rd, handle>>

\* conn.write(packet) / udp4.sendto / udp6.sendto.
OrderSend(w) ==
    /\ pc[w] = "send"
    /\ obs' = [obs EXCEPT !.sent =
                  Append(@, [n |-> Unwrap(cur[w]).n, peer |-> Unwrap(cur[w]).peer])]
    /\ pc' = [pc EXCEPT ![w] = "iface_read"]
    /\ cur' = [cur EXCEPT ![w] = None]
    /\ UNCHANGED <<device, ctl, wants_write, yield_notice, exit_notice, rd, handle>>

OrderNext ==
    \E w \in Workers :
       \/ OrderWait(w)
       \/ \E dst \in {None} \cup {Some(ip) : ip \in IpAddrs} : OrderRead(w, dst)
       \/ OrderWouldBlock(w)
       \/ \E result \in EncapResults : OrderEncapsulate(w, result)
       \/ OrderSend(w)

OrderSpec == OrderInit /\ [][OrderNext]_vars

(***************************************************************************)
(* BatchSpec: one invocation at a time of the UDP-ingress, connected-socket *)
(* and tun-ingress handlers, counting the loop iterations, the datagrams of *)
(* each receive batch and the packets processed since the invocation began. *)
(***************************************************************************)
BatchIdle == [handler |-> "none", running |-> FALSE, itr |-> 0, batch |-> 0, packets |-> 0]

BatchInit ==
    /\ \E eph \in Ephemeral :
          LET r == api_set(ConnSet, Device_new(TRUE), eph)
          IN ~r.panic /\ r.errno = 0 /\ device = r.d
    /\ ctl = CtlIdle
    /\ pc = [w \in Workers |-> "wait"]
    /\ cur = [w \in Workers |-> None]
    /\ wants_write = FALSE
    /\ yield_notice = FALSE
    /\ exit_notice = FALSE
    /\ obs = BatchIdle
    /\ rd = RdIdle
    /\ handle = HandleNew

\* The sizes a recvmmsg batch of up to `vlen` messages is drawn from.
BatchSizes(vlen) == {1, vlen}

\* queue.wait() returns a handler and the closure is entered.
BatchStart(kind) ==
    /\ ~obs.running
    /\ obs' = [BatchIdle EXCEPT !.handler = kind, !.running = TRUE]
    /\ UNCHANGED <<device, ctl, pc, cur, wants_write, yield_notice, exit_notice, rd, handle>>

\* The UDP-ingress handler: one recvmmsg into the RECVMSG_NUM_CHUNKS chunks
\* of src_buf, then a loop over the messages that `iter` cuts at MAX_ITR.
BatchUdp(n) ==
    /\ obs.running /\ obs.handler = "udp"
    /\ obs' = [obs EXCEPT !.running = FALSE, !.itr = 1, !.batch = n,
                          !.packets = IF n < MAX_ITR THEN n ELSE MAX_ITR]
    /\ UNCHANGED <<device, ctl, pc, cur, wants_write, yield_notice, exit_notice, rd, handle>>

\* The connected-socket handler: one pass of `for _ in 0..MAX_ITR`, a
\* recvmmsg into the ten chunks of big_buf and a loop over all its messages.
BatchConn(n) ==
    /\ obs.running /\ obs.handler = "conn"
    /\ obs.itr < MAX_ITR
    /\ obs' = [obs EXCEPT !.itr = @ + 1, !.batch = n, !.packets = @ + n]
    /\ UNCHANGED <<device, ctl, pc, cur, wants_write, yield_notice, exit_notice, rd, handle>>

\* The tun-ingress handler: one pass of `for _ in 0..MAX_ITR`, one packet read.
BatchIface ==
    /\ obs.running /\ obs.handler = "iface"
    /\ obs.itr < MAX_ITR
    /\ obs' = [obs EXCEPT !.itr = @ + 1, !.batch = 1, !.packets = @ + 1]
    /\ UNCHANGED <<device, ctl, pc, cur, wants_write, yield_notice, exit_notice, rd, handle>>

\* The loop of the connected-socket or tun-ingress handler ends: the read
\* would block or failed, or MAX_ITR passes were made.
BatchReturn ==
    /\ obs.running /\ obs.handler \in {"conn", "iface"}
    /\ obs' = [obs EXCEPT !.running = FALSE]
    /\ UNCHANGED <<device, ctl, pc, cur, wants_write, yield_notice, exit_notice, rd, handle>>

BatchNext ==
    \/ \E kind \in {"udp", "conn", "iface"} : BatchStart(kind)
    \/ \E n \in BatchSizes(RECVMSG_NUM_CHUNKS) : BatchUdp(n)
    \/ \E n \in BatchSizes(10) : BatchConn(n)
    \/ BatchIface
    \/ BatchReturn

BatchSpec == BatchInit /\ [][BatchNext]_vars

(***************************************************************************)
(* StreamSpec: the reader thread of ConfigRx::from_read_and_write framing  *)
(* a line stream into requests, the request channel and the per-request    *)
(* response channel, and the control thread of register_api_handler        *)
(* answering them.                                                         *)
(***************************************************************************)
StreamLines == {"get=1", "set=1", "private_key=1", "public_key=1"}

\* Request::from_str on the text handed to make_request, a sequence of
\* non-empty lines: get=1 alone, or set=1 followed by key=value lines;
\* anything else fails to parse.
RECURSIVE parse_set(_, _)
parse_set(text, set) ==
    IF text = <<>> THEN Some(set)
    ELSE IF Head(text) = "private_key=1"
    THEN parse_set(Tail(text), [set EXCEPT !.private_key = Some(1)])
    ELSE IF Head(text) = "public_key=1"
    THEN parse_set(Tail(text),
                   [set EXCEPT !.peers =
                       Append(@, SetPeerOf(1, None, None, None, <<>>, FALSE, FALSE))])
    ELSE None

Request_from_str(text) ==
    IF text = <<>> THEN None
    ELSE IF Head(text) = "get=1"
    THEN IF Len(text) = 1 THEN Some(RequestGet) ELSE None
    ELSE IF Head(text) = "set=1"
    THEN LET set == parse_set(Tail(text), SetOf(None, None, None, FALSE, None, <<>>))
         IN IF IsSome(set) THEN Some(RequestSet(Unwrap(set))) ELSE None
    ELSE None

\* The control thread is gone: it panicked, or returned when the request
\* channel closed.
CtlGone == ctl.pc \in {"panicked", "returned"}

\* `for line in r.lines()` yields a line: a non-empty line is pushed to
\* `lines`, an empty one ends the request unless `lines` is empty.
ReadLine(line) ==
    /\ rd.pc = "lines"
    /\ rd.nread < MaxStream
    /\ rd' = IF line # ""
             THEN [rd EXCEPT !.nread = @ + 1, !.input = Append(@, line),
                             !.lines = Append(@, line)]
             ELSE IF rd.lines = <<>>
             THEN [rd EXCEPT !.nread = @ + 1, !.input = Append(@, line)]
             ELSE [rd EXCEPT !.nread = @ + 1, !.input = Append(@, line),
                             !.pc = "request"]
    /\ UNCHANGED <<device, ctl, pc, cur, wants_write, yield_notice, exit_notice, obs, handle>>

\* The stream ends: the iterator is exhausted, or a read fails and what is
\* in `lines` is made a last request.
ReadEnd(failed) ==
    /\ rd.pc = "lines"
    /\ rd' = IF failed /\ rd.lines # <<>>
             THEN [rd EXCEPT !.pc = "request", !.last = TRUE]
             ELSE [rd EXCEPT !.pc = "done"]
    /\ UNCHANGED <<device, ctl, pc, cur, wants_write, yield_notice, exit_notice, obs, handle>>

\* make_request up to response_rx.recv(): parse, send on the request channel.
\* A parse error or a closed channel is an Err that the caller unwraps.
make_request ==
    /\ rd.pc = "request"
    /\ LET request == Request_from_str(rd.lines)
       IN rd' = IF ~IsSome(request) \/ CtlGone
                THEN [rd EXCEPT !.pc = "panicked"]
                ELSE [rd EXCEPT !.pc = "await", !.tx = request, !.rx = None,
                                !.handed = @ + 1]
    /\ UNCHANGED <<device, ctl, pc, cur, wants_write, yield_notice, exit_notice, obs, handle>>

\* response_rx.recv() returns: the response is written to the stream, or the
\* sender was dropped without a response ("Server hung up").
response_recv ==
    /\ rd.pc = "await"
    /\ \/ /\ IsSome(rd.rx)
          /\ rd' = [rd EXCEPT !.pc = IF rd.last THEN "done" ELSE "lines",
                              !.rx = None,
                              !.written = Append(@, [n |-> rd.handed,
                                                     resp |-> Unwrap(rd.rx)])]
       \/ /\ ~IsSome(rd.rx)
          /\ ctl.pc = "panicked"
          /\ rd' = [rd EXCEPT !.pc = "panicked"]
    /\ UNCHANGED <<device, ctl, pc, cur, wants_write, yield_notice, exit_notice, obs, handle>>

\* A recv that keeps waiting after the sender was dropped.
channel_recv_blocked ==
    /\ ctl.pc = "recv"
    /\ IsSome(rd.tx)
    /\ ctl' = [pc |-> "handle", req |-> rd.tx, resp |-> None]
    /\ rd' = [rd EXCEPT !.tx = None]
    /\ UNCHANGED <<device, pc, cur, wants_write, yield_notice, exit_notice, obs, handle>>

\* channel.recv() in the control thread: the next request, or None once the
\* reader thread has ended and dropped the sender.
channel_recv ==
    /\ ctl.pc = "recv"
    /\ \/ /\ IsSome(rd.tx)
          /\ ctl' = [pc |-> "handle", req |-> rd.tx, resp |-> None]
          /\ rd' = [rd EXCEPT !.tx = None]
       \/ /\ ~IsSome(rd.tx)
          /\ rd.pc \in {"done", "panicked"}
          /\ ctl' = [ctl EXCEPT !.pc = "returned"]
          /\ UNCHANGED rd
    /\ UNCHANGED <<device, pc, cur, wants_write, yield_notice, exit_notice, obs, handle>>

\* respond(response): response_tx.send.
channel_respond ==
    /\ ctl.pc = "respond"
    /\ rd' = [rd EXCEPT !.rx = ctl.resp]
    /\ ctl' = CtlIdle
    /\ UNCHANGED <<device, pc, cur, wants_write, yield_notice, exit_notice, obs, handle>>

StreamNext ==
    \/ \E line \in StreamLines \cup {""} : ReadLine(line)
    \/ \E failed \in BOOLEAN : ReadEnd(failed)
    \/ make_request
    \/ response_recv
    \/ channel_recv
    \/ ApiGet
    \/ \E eph \in Ephemeral : ApiSet(eph)
    \/ channel_respond

StreamSpec == ApiInit /\ [][StreamNext]_vars

\* The control thread is scheduled: a recv that can return does return.
StreamFairness == WF_vars(channel_recv)

StreamFairSpec == StreamSpec /\ StreamFairness

(***************************************************************************)
(* Properties.                                                             *)
(***************************************************************************)
PeerMaps(d) == <<d.peers, d.peers_by_idx, d.peers_by_ip>>

\* C1: after any sequence of update_peer, remove_peer and clear_peers, every
\* peer of the by-key map is the by-index entry at its own index and the
\* trie entry at each of its allowed CIDRs, and every by-index and trie
\* entry is a peer of the by-key map.
C1_IndexConsistency ==
    /\ \A k \in DOMAIN device.peers :
          LET p == device.peers[k]
              peer == device.store[p]
          IN /\ peer.index \in DOMAIN device.peers_by_idx
             /\ device.peers_by_idx[peer.index] = p
             /\ \A e \in peer.allowed_ips :
                   /\ Prefix(e.fam, e.addr, e.cidr) \in DOMAIN device.peers_by_ip
                   /\ device.peers_by_ip[Prefix(e.fam, e.addr, e.cidr)] = p
    /\ \A i \in DOMAIN device.peers_by_idx :
          device.peers_by_idx[i] \in MapValues(device.peers)
    /\ \A q \in DOMAIN device.peers_by_ip :
          device.peers_by_ip[q] \in MapValues(device.peers)

\* C2: the peer maps change only in a step of the closure that
\* api_set_locked runs through try_writeable, and while the control thread
\* is in that closure no worker holds a read guard or runs a handler.
C2_MapsMutatedOnlyExclusively ==
    /\ [](ctl.pc = "exclusive" => Readers = {})
    /\ [][PeerMaps(device') # PeerMaps(device) => ctl.pc = "exclusive" /\ Readers = {}]_vars

\* The closure is entered after workers that held guards and ran handlers
\* (a connected socket exists) have all dropped their guards.
C2_Witness ==
    /\ ctl.pc = "exclusive"
    /\ device.conn_handlers # {}
    /\ \A w \in Workers : pc[w] = "acquire"

\* C3 as stated: when try_writeable is called while workers hold read
\* guards, each of them eventually receives Action::Yield and drops its
\* guard (it is back at device.read()).
C3_EveryWorkerYields ==
    \A w \in Workers :
        (ctl.pc = "drain" /\ HoldsGuard(pc[w])) ~> (pc[w] = "acquire")

\* C3 amended: when try_writeable is called while workers hold read guards,
\* the yield notifier is triggered, each of them eventually drops its guard
\* (on Action::Yield, or by ending on Action::Exit or a panic), and the
\* writer's closure eventually runs.
C3_YieldLiveness ==
    /\ [](ctl.pc = "drain" => yield_notice)
    /\ \A w \in Workers : (ctl.pc = "drain" /\ HoldsGuard(pc[w])) ~> ~HoldsGuard(pc[w])
    /\ (ctl.pc = "drain") ~> (ctl.pc = "exclusive")

\* try_writeable has been called with one worker in wait() and another
\* inside a handler, and the yield notifier is triggered.
C3_Witness ==
    /\ ctl.pc = "drain"
    /\ yield_notice
    /\ \E w1, w2 \in Workers : pc[w1] = "wait" /\ pc[w2] = "handler"

\* C4: a handler invocation that starts when every set=1 so far has been
\* answered acts on the device those sets produced: a connected-socket
\* handler is invoked only for a peer of the device, a UDP-ingress handler
\* only for a current listener.
C4_HandlersSeeSetState ==
    [][\A w \in Workers :
          (ctl.pc = "recv" /\ pc[w] = "wait" /\ pc'[w] = "handler") =>
              LET h == Unwrap(cur'[w])
              IN /\ h.kind = "conn" => h.h.peer \in MapValues(device.peers)
                 /\ h.kind = "udp" => Some(h.udp) \in {device.udp4, device.udp6}]_vars

\* A set=1 with one peer block that adds a key the by-key map already has.
DuplicateAdd(r, d) ==
    /\ r.type = "set"
    /\ ~r.set.replace_peers
    /\ r.set.private_key = None
    /\ r.set.protocol_version = None
    /\ Len(r.set.peers) = 1
    /\ ~r.set.peers[1].remove
    /\ ~r.set.peers[1].update_only
    /\ r.set.peers[1].preshared_key # Some(PskUnset)
    /\ r.set.peers[1].public_key \in DOMAIN d.peers

\* C5: a set=1 that adds a peer whose key is already in the by-key map is
\* answered with a non-zero errno and leaves the device as it was.
C5_DuplicateAddRefused ==
    [][(ctl.pc = "handle" /\ DuplicateAdd(Unwrap(ctl.req), device)) =>
          /\ ctl'.pc = "respond"
          /\ Unwrap(ctl'.resp).errno # 0
          /\ device' = device]_vars

\* A set=1 that only carries a listen_port that cannot be bound.
UnbindablePort(r) ==
    /\ r.type = "set"
    /\ r.set = SetOf(None, r.set.listen_port, None, FALSE, None, <<>>)
    /\ IsSome(r.set.listen_port)
    /\ PortInUse(4, Unwrap(r.set.listen_port))

\* C6: a set=1 whose listen_port cannot be bound is answered with
\* errno=EADDRINUSE and leaves the listeners, their registration, the
\* listen_port, the key pair, the peers and their connected sockets as
\* they were.
C6_FailedBindKeepsState ==
    [][(ctl.pc = "handle" /\ UnbindablePort(Unwrap(ctl.req))) =>
          /\ ctl'.pc = "respond"
          /\ Unwrap(ctl'.resp).errno = EADDRINUSE
          /\ device'.udp4 = device.udp4
          /\ device'.udp6 = device.udp6
          /\ device'.udp_handlers = device.udp_handlers
          /\ device'.listen_port = device.listen_port
          /\ device'.key_pair = device.key_pair
          /\ device'.peers = device.peers
          /\ device'.store = device.store]_vars

\* What a get=1 returns for the fields a set=1 supplied, the private key
\* left aside (listen_port 0 asks for a port of the OS's choice).
RoundTripRest(set, get) ==
    /\ (IsSome(set.listen_port) /\ Unwrap(set.listen_port) # 0) =>
          get.listen_port = set.listen_port
    /\ IsSome(set.fwmark) => get.fwmark = set.fwmark
    /\ \A i \in DOMAIN set.peers :
          (~set.peers[i].remove /\ ~set.peers[i].update_only) =>
              \E g \in get.peers :
                  /\ g.public_key = set.peers[i].public_key
                  /\ g.endpoint = set.peers[i].endpoint
                  /\ g.persistent_keepalive_interval =
                         set.peers[i].persistent_keepalive_interval
                  /\ g.allowed_ip =
                         {set.peers[i].allowed_ip[j] : j \in DOMAIN set.peers[i].allowed_ip}

\* C7: after a set=1 answered with errno=0, a get=1 returns the private_key,
\* listen_port, fwmark and peer fields that the set supplied.
C7_SetGetRoundTrip ==
    (ctl.pc = "respond" /\ Unwrap(ctl.resp).type = "set" /\ Unwrap(ctl.resp).errno = 0) =>
        LET set == Unwrap(ctl.req).set
            get == api_get(device)
        IN /\ IsSome(set.private_key) => get.private_key = set.private_key
           /\ RoundTripRest(set, get)

\* C8: in the UDP-ingress and the connected-socket handler, a tunnel result
\* WriteToTunnelV4/V6(pkt, a) for a peer is written to tun if and only if a
\* is covered by one of that peer's allowed IPs, and no other result writes
\* to tun.
C8_TunWriteIffAllowed ==
    (obs.handler \in {"udp", "conn"} /\ IsSome(obs.out.peer)) =>
        LET r == obs.dg.outcome.result
            peer == device.store[Unwrap(obs.out.peer)]
            covered == \E e \in peer.allowed_ips :
                           /\ e.fam = ResultIp(r).fam
                           /\ Mask(e.addr, e.cidr) = Mask(ResultIp(r).a, e.cidr)
        IN IF IsWriteToTunnel(r)
           THEN /\ covered => obs.out.tun = Some(ResultIp(r))
                /\ ~covered => obs.out.tun = None
           ELSE obs.out.tun = None

\* The connected-socket handler wrote a packet whose address one of the
\* peer's allowed IPs covers.
C8_Witness ==
    /\ obs.handler = "conn"
    /\ IsWriteToTunnel(obs.dg.outcome.result)
    /\ obs.out.tun = Some(ResultIp(obs.dg.outcome.result))
    /\ device.store[Unwrap(obs.out.peer)].allowed_ips # {}

\* C9: a datagram that the rate limiter answers with a cookie reply or a
\* drop verdict reaches no peer's handle_verified_packet and changes no
\* endpoint; for a cookie reply the cookie, and nothing else, is sent to the
\* datagram's source, and for a drop nothing is sent.
C9_LimitedNeverHandled ==
    (obs.handler = "udp" /\ obs.dg.verdict \in {"cookie", "drop"}) =>
        /\ ~obs.out.handle_verified_packet
        /\ obs.out.peer = None
        /\ obs.out.tun = None
        /\ ~obs.out.set_endpoint
        /\ ~obs.out.connected
        /\ obs.out.sent = IF obs.dg.verdict = "cookie"
                          THEN <<[what |-> "cookie", to |-> obs.dg.src]>>
                          ELSE <<>>

\* A cookie reply was sent for a datagram that names a peer of the device.
C9_Witness ==
    /\ obs.handler = "udp"
    /\ obs.dg.verdict = "cookie"
    /\ IsSome(udp_find_peer(device, obs.dg))
    /\ obs.out.sent = <<[what |-> "cookie", to |-> obs.dg.src]>>

\* C10: the reader thread hands over request n+1 only after the response to
\* request n has been written to the stream, the responses are written in
\* request order, and when the reader thread has ended every request it
\* handed over has got its one response.
C10_OneResponseEach ==
    /\ rd.handed <= Len(rd.written) + 1
    /\ \A i \in DOMAIN rd.written : rd.written[i].n = i
    /\ rd.pc \in {"done", "panicked"} => Len(rd.written) = rd.handed

\* C11: a request is handed to the device only when the line read last was
\* the empty line that ends it; lines left without a terminator when the
\* stream ends or a read fails are never made a request.
C11_OnlyTerminatedRequests ==
    [][rd'.handed > rd.handed => ~rd.last]_vars

\* C12: a framed request whose text fails to parse is answered on the stream
\* with a response that carries a non-zero errno.
C12_ParseErrorAnswered ==
    [][(rd.pc = "request" /\ ~IsSome(Request_from_str(rd.lines))) =>
          /\ Len(rd'.written) = Len(rd.written) + 1
          /\ rd'.written[Len(rd'.written)].resp.errno # 0]_vars

\* A worker has ended on Action::Exit.
Exited(w) == pc[w] = "done"

\* C13: once a handler has returned Exit on a worker, the exit notifier is
\* triggered and stays triggered, every worker eventually receives Exit and
\* ends, no worker that ended starts again, and a DeviceHandle::wait that was
\* called returns.
C13_ExitStopsEveryWorker ==
    /\ []((\E w \in Workers : Exited(w)) => exit_notice)
    /\ [][exit_notice => exit_notice']_vars
    /\ [][\A w \in Workers : pc[w] \in {"done", "panicked"} => pc'[w] = pc[w]]_vars
    /\ \A v \in Workers : (\E w \in Workers : Exited(w)) ~> Exited(v)
    /\ ((\E w \in Workers : Exited(w)) /\ handle.pc = "wait") ~> (handle.pc = "returned")

\* A worker thread has ended, on Action::Exit or by a panic.
Ended(w) == pc[w] \in {"done", "panicked"}

\* C14: dropping the DeviceHandle triggers the exit notifier, and the
\* cleanup paths are unlinked only when every worker thread has been joined,
\* that is, has ended.
C14_DropJoinsBeforeClean ==
    /\ handle.dropped => exit_notice
    /\ handle.cleaned => \A w \in Workers : Ended(w)

\* C15: on a device created by DeviceHandle::new, a delivered SIGINT or
\* SIGTERM leads to the exit notifier being triggered and to every worker
\* thread ending.
C15_SignalStopsWorkers ==
    \A sig \in Signals :
        (sig \in handle.signals) ~> (exit_notice /\ \A w \in Workers : Ended(w))

\* C16: every peer has an index below 2^24 that the counter has passed, a
\* newly created peer gets an index the counter had not yet handed out
\* (also after remove_peer and clear_peers), the counter never goes back,
\* and receiver_index >> 8 of a receiver index built from a peer's index is
\* that index again, so that it names no other peer.
C16_IndicesUniqueBelowLimit ==
    /\ [](\A p \in DOMAIN device.store :
            /\ device.store[p].index < IndexLimit
            /\ device.store[p].index < device.next_index
            /\ \A q \in DOMAIN device.store :
                  p # q => device.store[p].index # device.store[q].index
            /\ receiver_index_peer(device.store[p].index) = device.store[p].index)
    /\ [][device'.next_index >= device.next_index]_vars
    /\ [][\A k \in DOMAIN device'.peers :
            (k \notin DOMAIN device.peers \/ device'.peers[k] # device.peers[k]) =>
                device'.store[device'.peers[k]].index >= device.next_index]_vars

\* The last index, 2^24 - 1, was given to a peer, and the request that asked
\* for one more peer ended in the assert of next_index.
C16_Witness ==
    /\ \E p \in DOMAIN device.store : device.store[p].index = IndexLimit - 1
    /\ device.next_index = IndexLimit + 1
    /\ ctl.pc = "panicked"

\* C17: the rate limiter is present if and only if the key pair is set, it
\* is the limiter made for the current public key, and a step that installs
\* a different key pair installs a new rate limiter in that same step.
C17_LimiterFollowsKeyPair ==
    /\ [](IsSome(device.rate_limiter) <=> IsSome(device.key_pair))
    /\ [](IsSome(device.key_pair) =>
             device.rate_limiter = Some(Unwrap(device.key_pair).pk))
    /\ [][device'.key_pair # device.key_pair =>
             /\ IsSome(device'.rate_limiter)
             /\ device'.rate_limiter # device.rate_limiter]_vars

\* A set=1 carrying a private key has been answered on a device that had
\* created peers, and so had a key pair, before: the key pair is the one
\* asked for and the limiter is the one made for its public key.
C17_Witness ==
    /\ ctl.pc = "respond"
    /\ Unwrap(ctl.req).type = "set"
    /\ device.next_index > 0
    /\ IsSome(Unwrap(ctl.req).set.private_key)
    /\ IsSome(device.key_pair)
    /\ Unwrap(device.key_pair).sk = Unwrap(Unwrap(ctl.req).set.private_key)
    /\ device.rate_limiter = Some(PublicKeyFrom(Unwrap(device.key_pair).sk))

\* The connected-socket handlers registered for peer `pid`.
HandlersOf(pid) == {h \in device.conn_handlers : h.peer = pid}

\* C18 as stated: at every moment each peer has at most one connected
\* socket and at most one connected-socket handler registered for it.
C18_OneHandlerPerPeer ==
    \A pid \in DOMAIN device.store : Cardinality(HandlersOf(pid)) <= 1

\* C18 amended: each peer has at most one connected socket, at most one of
\* the handlers registered for it is on a socket that is open, and that
\* socket is the peer's connected socket; handlers of sockets that were shut
\* down stay registered until the event loop cancels them on end-of-file.
C18_OneOpenHandlerPerPeer ==
    \A pid \in DOMAIN device.store :
        /\ Cardinality({h \in HandlersOf(pid) : h.open}) <= 1
        /\ (\E h \in HandlersOf(pid) : h.open) => IsSome(device.store[pid].conn)
        /\ \A w \in Workers :
              (IsSome(cur[w]) /\ Unwrap(cur[w]).peer = pid /\ Unwrap(cur[w]).alive) =>
                  /\ IsSome(device.store[pid].conn)
                  /\ ~\E h \in HandlersOf(pid) : h.open

\* Two workers are finishing datagrams from the same peer with different
\* source addresses, one holds the socket it has just connected, and a
\* handler of the peer's earlier socket, shut down by the address change, is
\* still registered.
C18_Witness ==
    \E w1, w2 \in Workers :
        /\ w1 # w2
        /\ IsSome(cur[w1]) /\ IsSome(cur[w2])
        /\ Unwrap(cur[w1]).peer = Unwrap(cur[w2]).peer
        /\ Unwrap(cur[w1]).src # Unwrap(cur[w2]).src
        /\ pc[w1] = "register_conn_handler" /\ Unwrap(cur[w1]).alive
        /\ \E h \in HandlersOf(Unwrap(cur[w1]).peer) : ~h.open

\* What remove_peer(k) has to make of device d, as d1.
Removed(d, d1, k) ==
    IF k \in DOMAIN d.peers
    THEN LET p == d.peers[k]
             index == d.store[p].index
         IN /\ DOMAIN d1.peers = DOMAIN d.peers \ {k}
            /\ \A j \in DOMAIN d1.peers : d1.peers[j] = d.peers[j]
            /\ DOMAIN d1.peers_by_idx = DOMAIN d.peers_by_idx \ {index}
            /\ \A i \in DOMAIN d1.peers_by_idx : d1.peers_by_idx[i] = d.peers_by_idx[i]
            /\ DOMAIN d1.peers_by_ip = {q \in DOMAIN d.peers_by_ip : d.peers_by_ip[q] # p}
            /\ \A q \in DOMAIN d1.peers_by_ip : d1.peers_by_ip[q] = d.peers_by_ip[q]
            /\ \A ip \in IpAddrs : trie_find(d1.peers_by_ip, ip) # Some(p)
            /\ p \in DOMAIN d1.store => ~IsSome(d1.store[p].conn)
            /\ \A h \in d1.conn_handlers : h.peer = p => ~h.open
            /\ \A o \in DOMAIN d.store \ {p} :
                  o \in DOMAIN d1.store /\ d1.store[o] = d.store[o]
            /\ \A h \in d.conn_handlers : h.peer # p => h \in d1.conn_handlers
    ELSE d1 = d

\* C19: remove_peer(pk) for a peer that is present takes pk out of the
\* by-key map, the peer's index out of the by-index map and every entry of
\* the peer out of the trie, so that no address finds it, and closes its
\* connected socket, while the entries, sockets and handlers of every other
\* peer stay as they were; for an absent key it changes nothing.
C19_RemovePeerFrame ==
    [][\A k \in PeerKeys :
          (ctl.pc = "handle" /\ Unwrap(ctl.req) = RequestSet(RemoveSet(k))) =>
              Removed(device, device', k)]_vars

\* A peer that had a connected socket was removed: its handler is left on a
\* closed socket, and another peer is still in the device with its own
\* connected socket open.
C19_Witness ==
    /\ ctl.pc = "respond"
    /\ \E k \in PeerKeys :
          /\ Unwrap(ctl.req) = RequestSet(RemoveSet(k))
          /\ k \notin DOMAIN device.peers
    /\ \E h \in device.conn_handlers : ~h.open /\ h.peer \notin MapValues(device.peers)
    /\ \E h \in device.conn_handlers : h.open /\ h.peer \in MapValues(device.peers)

\* The keys that the peer blocks L leave in an empty device, block by block.
RECURSIVE AddedKeys(_)
AddedKeys(L) ==
    IF L = <<>> THEN {}
    ELSE LET b == L[Len(L)]
             before == AddedKeys(SubSeq(L, 1, Len(L) - 1))
         IN IF b.remove THEN before \ {b.public_key}
            ELSE IF b.update_only THEN before
            ELSE before \cup {b.public_key}

\* C20: when a set=1 with replace_peers=true and peer blocks L is answered
\* with errno=0, the by-key map holds exactly the keys L adds, the by-index
\* map exactly their peers, the trie exactly those of them that list a CIDR,
\* and every one of these peers was created by this request: no peer from
\* before it remains in any index.
C20_ReplaceLeavesOnlyNewPeers ==
    [][(/\ ctl.pc = "handle"
        /\ Unwrap(ctl.req).type = "set"
        /\ Unwrap(ctl.req).set.replace_peers
        /\ ctl'.pc = "respond"
        /\ Unwrap(ctl'.resp).errno = 0) =>
          LET L == Unwrap(ctl.req).set.peers
              new == MapValues(device'.peers)
          IN /\ DOMAIN device'.peers = AddedKeys(L)
             /\ \A p \in new : /\ p \notin DOMAIN device.store
                               /\ device'.store[p].index >= device.next_index
             /\ MapValues(device'.peers_by_idx) = new
             /\ \A i \in DOMAIN device'.peers_by_idx :
                   device'.store[device'.peers_by_idx[i]].index = i
             /\ MapValues(device'.peers_by_ip) =
                   {p \in new : device'.store[p].allowed_ips # {}}]_vars

\* The peers of the device that own the longest CIDR covering `ip` among the
\* allowed IPs of all its peers.
LongestOwners(d, ip) ==
    LET covering(p) == {e \in d.store[p].allowed_ips :
                          Covers(Prefix(e.fam, e.addr, e.cidr), ip)}
        all == UNION {covering(p) : p \in MapValues(d.peers)}
    IN {p \in MapValues(d.peers) :
          \E e \in covering(p) : \A f \in all : f.cidr <= e.cidr}

\* C21: the tun-ingress handler encapsulates a packet for destination a with
\* a peer that owns the longest CIDR covering a among the allowed IPs of all
\* peers in the device, and makes no encapsulate call when no peer's CIDR
\* covers a.
C21_LongestPrefixPeerEncapsulates ==
    [][\A pkt \in TunPackets :
          (TunIface(pkt) /\ IsSome(pkt.dst)) =>
             LET owners == LongestOwners(device, Unwrap(pkt.dst))
             IN IF owners = {}
                THEN ~obs'.out.encapsulate
                ELSE /\ obs'.out.encapsulate
                     /\ Unwrap(obs'.out.peer) \in owners]_vars

\* The packets of a log are in read order peer by peer.
InReadOrder(log) ==
    \A i, j \in DOMAIN log :
       (i < j /\ log[i].peer = log[j].peer) => log[i].n < log[j].n

\* C22: with the worker threads serving the tun interface, the packets
\* routed to one peer are encapsulated in the order they were read from tun
\* and handed to the sending socket in that same order.
C22_PerPeerReadOrder ==
    obs.handler = "iface" => InReadOrder(obs.encapsulated) /\ InReadOrder(obs.sent)

\* The reader thread's line iterator is exhausted: the closure returned and
\* dropped the request sender.
StreamEnded == rd.pc = "done" /\ ~rd.last

\* C23: when the framed stream ends after zero or more complete requests,
\* the reader thread has stopped without a panic, the control thread has not
\* panicked and handles no request, and its recv returns None: it returns,
\* before taking a guard on the device.
C23_StreamEndStopsControlThread ==
    /\ [](StreamEnded => /\ ctl.pc \in {"recv", "returned"}
                         /\ ~IsSome(rd.tx)
                         /\ Len(rd.written) = rd.handed)
    /\ [][StreamEnded => rd' = rd]_vars
    /\ (StreamEnded ~> ctl.pc = "returned")
    /\ [][ctl.pc = "returned" => ctl' = ctl /\ device' = device]_vars

\* The stream ended after two answered requests, the second a set=1, and
\* the control thread returned.
C23_Witness ==
    /\ StreamEnded
    /\ rd.handed = 2
    /\ \E i \in DOMAIN rd.written : rd.written[i].resp.type = "set"
    /\ ctl.pc = "returned"

\* C24: a set=1 that carries only a private key whose public key differs
\* from the current one, on a device with one or more peers, completes with
\* the new key pair and a new rate limiter installed, every peer's tunnel
\* re-keyed to the new private key and the three indices as they were.
C24_SetKeyRekeysPeers ==
    [][(/\ ctl.pc = "handle"
        /\ Unwrap(ctl.req).type = "set"
        /\ IsSome(Unwrap(ctl.req).set.private_key)
        /\ ~Unwrap(ctl.req).set.replace_peers
        /\ Unwrap(ctl.req).set.peers = <<>>
        /\ device.peers # EmptyMap
        /\ Unwrap(device.key_pair).pk #
              PublicKeyFrom(Unwrap(Unwrap(ctl.req).set.private_key))
        /\ ctl'.pc # "handle") =>
          LET k == Unwrap(Unwrap(ctl.req).set.private_key)
          IN /\ ctl'.pc = "respond"
             /\ device'.key_pair = Some([sk |-> k, pk |-> PublicKeyFrom(k)])
             /\ device'.rate_limiter = Some(PublicKeyFrom(k))
             /\ device'.rate_limiter # device.rate_limiter
             /\ PeerMaps(device') = PeerMaps(device)
             /\ \A p \in MapValues(device'.peers) : device'.store[p].tunnel_key = k]_vars

\* C25: the connected-socket handler of a peer reads its input from the
\* connected UDP socket it was registered for, never from the tun device or
\* another socket, and passes only datagrams received there to decapsulate.
C25_ConnHandlerReadsItsSocket ==
    obs.handler = "conn" => obs.recv_fd = obs.event_fd

\* C26: clear_peers, and so a set=1 with replace_peers=true, closes the
\* connected socket of every peer it drops: no connected-socket handler with
\* an open socket remains for a peer that is not in the device, and no
\* packet is decapsulated or written to tun on behalf of one.
C26_ClearClosesConnectedSockets ==
    /\ [](\A h \in device.conn_handlers : h.open => h.peer \in MapValues(device.peers))
    /\ [][\A h \in device.conn_handlers, outcome \in ClearOutcomes :
             PktConn(h, outcome) => h.peer \in MapValues(device.peers)]_vars

\* The non-empty lines at the end of a stream prefix.
RECURSIVE TrailingLines(_)
TrailingLines(input) ==
    IF input = <<>> \/ input[Len(input)] = "" THEN <<>>
    ELSE Append(TrailingLines(SubSeq(input, 1, Len(input) - 1)), input[Len(input)])

\* The lines between the last empty line read and the empty line before it.
LastFramed(input) == TrailingLines(SubSeq(input, 1, Len(input) - 1))

\* C27: each request handed to the device is made of exactly the non-empty
\* lines read since the terminating empty line of the previous request; an
\* empty line that follows an empty line hands over nothing.
C27_RequestIsItsOwnLines ==
    [][(rd.pc = "request" /\ ~rd.last /\ rd'.handed = rd.handed + 1) =>
          /\ LastFramed(rd.input) # <<>>
          /\ rd.lines = LastFramed(rd.input)]_vars

\* C28: when a set=1 that carries only a private key installs a new key
\* pair and the tunnel of some peer rejects it, set_key completes, the
\* rejected peers are gone from all three indices and the other peers stay.
C28_RejectingPeerRemoved ==
    [][(/\ ctl.pc = "handle"
        /\ Unwrap(ctl.req).type = "set"
        /\ IsSome(Unwrap(ctl.req).set.private_key)
        /\ ~Unwrap(ctl.req).set.replace_peers
        /\ Unwrap(ctl.req).set.peers = <<>>
        /\ IsSome(device.key_pair)
        /\ Unwrap(device.key_pair).pk #
              PublicKeyFrom(Unwrap(Unwrap(ctl.req).set.private_key))
        /\ \E p \in MapValues(device.peers) :
              TunnRejects(Unwrap(Unwrap(ctl.req).set.private_key),
                          device.store[p].public_key)
        /\ ctl'.pc # "handle") =>
          LET k == Unwrap(Unwrap(ctl.req).set.private_key)
              bad == {p \in MapValues(device.peers) :
                         TunnRejects(k, device.store[p].public_key)}
              kept(m) == [x \in {y \in DOMAIN m : m[y] \notin bad} |-> m[x]]
          IN /\ ctl'.pc = "respond"
             /\ device'.key_pair = Some([sk |-> k, pk |-> PublicKeyFrom(k)])
             /\ device'.peers = kept(device.peers)
             /\ device'.peers_by_idx = kept(device.peers_by_idx)
             /\ device'.peers_by_ip = kept(device.peers_by_ip)]_vars

\* C29: an invocation of the UDP-ingress, connected-socket or tun-ingress
\* handler processes at most MAX_ITR packets before it returns, and a
\* receive batch holds at most RECVMSG_NUM_CHUNKS datagrams.
C29_BoundedWorkPerWake ==
    /\ obs.packets <= MAX_ITR
    /\ obs.batch <= RECVMSG_NUM_CHUNKS

C31_SameKeyIsNoOp ==
    [][(/\ ctl.pc = "handle"
        /\ Unwrap(ctl.req).type = "set"
        /\ IsSome(Unwrap(ctl.req).set.private_key)
        /\ ~Unwrap(ctl.req).set.replace_peers
        /\ IsSome(device.key_pair)
        /\ Unwrap(device.key_pair).pk =
              PublicKeyFrom(Unwrap(Unwrap(ctl.req).set.private_key))
        /\ ctl'.pc # "handle") =>
          LET k == Unwrap(Unwrap(ctl.req).set.private_key)
              r == set_key(device, k)
          IN /\ r.d = device
             /\ ~r.panic
             /\ ~r.limiter_new
             /\ set_key(r.d, k) = r
             /\ Unwrap(ctl.req).set.peers = <<>> =>
                   /\ device' = device
                   /\ ctl'.pc = "respond"
                   /\ Unwrap(ctl'.resp).errno = 0]_vars

\* A set=1 carrying only the current private key has been answered on a
\* device that has a peer.
C31_Witness ==
    /\ ctl.pc = "respond"
    /\ Unwrap(ctl.req).type = "set"
    /\ Unwrap(ctl.req).set.peers = <<>>
    /\ ~Unwrap(ctl.req).set.replace_peers
    /\ IsSome(Unwrap(ctl.req).set.private_key)
    /\ IsSome(device.key_pair)
    /\ Unwrap(device.key_pair).sk = Unwrap(Unwrap(ctl.req).set.private_key)
    /\ device.peers # EmptyMap

\* C32: a worker invokes a handler only with a read guard in hand, and no
\* writer is inside its exclusive section while a handler runs; a worker
\* that leaves the inner loop on Yield has released its guard and invokes
\* nothing before device.read() has given it a new one, which it does not
\* get while a writer is announced; after Continue the worker is waiting
\* again under the guard it had; after Exit the exit notifier is triggered
\* and the worker has returned, for good.
C32_HandlersRunUnderReadGuard ==
    [][\A w \in Workers :
          /\ (pc'[w] = "handler" /\ pc[w] # "handler") =>
                /\ pc[w] = "wait"
                /\ w \in Readers
                /\ IsSome(cur'[w])
          /\ pc[w] = "handler" => ctl.pc # "exclusive"
          /\ (pc[w] = "wait" /\ pc'[w] = "acquire") => yield_notice
          /\ pc[w] = "acquire" =>
                /\ pc'[w] \in {"acquire", "wait"}
                /\ pc'[w] = "wait" => ~wants_write
          /\ (pc[w] = "handler" /\ pc'[w] # "handler") =>
                \/ pc'[w] = "wait" /\ Unwrap(cur[w]).kind # "signal"
                \/ pc'[w] = "done" /\ exit_notice'
                \/ pc'[w] = "panicked" /\ handler_panics(device, Unwrap(cur[w]))
          /\ pc[w] \in {"done", "panicked"} => pc'[w] = pc[w]]_vars

\* After a set=1 that created a peer, for which every worker had to give up
\* its guard, one worker is inside a handler again and another has returned
\* on Exit with the exit notifier triggered.
C32_Witness ==
    /\ device.peers # EmptyMap
    /\ exit_notice
    /\ ~handle.dropped
    /\ \E w, v \in Workers : pc[w] = "handler" /\ pc[v] = "done"

\* C33: for a datagram that passed the rate limiter, the UDP-ingress handler
\* takes as peer the by-key entry for the static public key of the anonymous
\* parse when the packet is a HandshakeInit (none when the parse fails), and
\* the by-index entry for receiver_idx >> 8 when it is a HandshakeResponse,
\* CookieReply or Data; with no peer found there is no tunnel call, no tun
\* write, no send and no change to the device.
C33_PeerLookupByTypeOfPacket ==
    [][(obs'.handler = "udp" /\ obs'.dg.verdict = "packet") =>
          LET dg == obs'.dg
              idx == dg.receiver_idx \div 256
              chosen ==
                  IF dg.ptype = "HandshakeInit"
                  THEN IF dg.anon # None /\ Unwrap(dg.anon) \in DOMAIN device.peers
                       THEN Some(device.peers[Unwrap(dg.anon)]) ELSE None
                  ELSE IF idx \in DOMAIN device.peers_by_idx
                       THEN Some(device.peers_by_idx[idx]) ELSE None
          IN /\ obs'.out.peer = chosen
             /\ chosen # None => obs'.out.handle_verified_packet
             /\ chosen = None =>
                   /\ ~obs'.out.handle_verified_packet
                   /\ ~obs'.out.decapsulate
                   /\ obs'.out.tun = None
                   /\ obs'.out.sent = <<>>
                   /\ ~obs'.out.set_endpoint
                   /\ ~obs'.out.connected
                   /\ device' = device]_vars

\* A HandshakeInit was handled for the peer its static key names, which is
\* not the peer its receiver index would name.
C33_Witness ==
    /\ obs.handler = "udp"
    /\ obs.dg.verdict = "packet"
    /\ obs.dg.ptype = "HandshakeInit"
    /\ obs.out.peer # None
    /\ obs.out.handle_verified_packet
    /\ device.store[Unwrap(obs.out.peer)].public_key = Unwrap(obs.dg.anon)
    /\ device.store[Unwrap(obs.out.peer)].index # obs.dg.receiver_idx \div 256

\* Peer `pid` of device `d` is the one block `b` asks for under key `k`.
PeerAsAsked(d, pid, b, k) ==
    /\ b.public_key \in DOMAIN d.peers
    /\ d.peers[b.public_key] = pid
    /\ pid \in DOMAIN d.store
    /\ d.store[pid].index = pid
    /\ d.store[pid].public_key = b.public_key
    /\ d.store[pid].allowed_ips = {b.allowed_ip[i] : i \in DOMAIN b.allowed_ip}
    /\ d.store[pid].addr = b.endpoint
    /\ d.store[pid].keepalive = b.persistent_keepalive_interval
    /\ d.store[pid].tunnel_key = k

\* C34: api_set applies a request in the order replace_peers, private_key,
\* listen_port, fwmark, peer blocks in request order.  Seen from outside:
\* (a) remove K then add K in one request, K present before, leaves K
\* present as a new peer with the configuration of the add block;
\* (b) replace_peers with an add of K, K present before, leaves K alone, as
\* the add block asks; (c) a private key with an add, on a device without
\* peers, creates the peer under the new key; (d) replace_peers with a new
\* private key, on a device with peers, installs the key on a device
\* without peers; (e) a listen port with a fwmark and an add, on a device
\* without sockets, applies the fwmark to the listeners just bound, and
\* adds the peer only when that succeeded.
C34_SetAppliedInRequestOrder ==
    [][(/\ ctl.pc = "handle"
        /\ Unwrap(ctl.req).type = "set"
        /\ ctl'.pc # "handle") =>
          LET s == Unwrap(ctl.req).set
              n == Len(s.peers)
              answered == ctl'.pc = "respond" /\ Unwrap(ctl'.resp).errno = 0
              adds(b) == ~b.remove /\ ~b.update_only /\ b.preshared_key # Some(PskUnset)
          IN /\ (/\ n = 2 /\ s.peers[1].remove /\ adds(s.peers[2])
                 /\ s.peers[1].public_key = s.peers[2].public_key
                 /\ s.peers[1].public_key \in DOMAIN device.peers
                 /\ ~s.replace_peers /\ s.private_key = None) =>
                   /\ answered
                   /\ PeerAsAsked(device', device.next_index, s.peers[2],
                                  Unwrap(device.key_pair).sk)
                   /\ device.peers[s.peers[1].public_key] \notin DOMAIN device'.peers_by_idx
                   /\ DOMAIN device'.peers = DOMAIN device.peers
             /\ (/\ n = 1 /\ adds(s.peers[1]) /\ s.replace_peers
                 /\ s.peers[1].public_key \in DOMAIN device.peers
                 /\ s.private_key = None) =>
                   /\ answered
                   /\ PeerAsAsked(device', device.next_index, s.peers[1],
                                  Unwrap(device.key_pair).sk)
                   /\ DOMAIN device'.peers = {s.peers[1].public_key}
             /\ (/\ n = 1 /\ adds(s.peers[1]) /\ s.private_key # None
                 /\ s.listen_port = None
                 /\ device.peers = EmptyMap
                 /\ ~TunnRejects(Unwrap(s.private_key), s.peers[1].public_key)) =>
                   /\ answered
                   /\ Unwrap(device'.key_pair).sk = Unwrap(s.private_key)
                   /\ PeerAsAsked(device', device.next_index, s.peers[1],
                                  Unwrap(s.private_key))
             /\ (/\ n = 0 /\ s.replace_peers /\ s.private_key # None
                 /\ device.peers # EmptyMap
                 /\ Unwrap(device.key_pair).sk # Unwrap(s.private_key)) =>
                   /\ answered
                   /\ device'.peers = EmptyMap
                   /\ Unwrap(device'.key_pair).sk = Unwrap(s.private_key)
             /\ (/\ n = 1 /\ adds(s.peers[1]) /\ s.private_key # None
                 /\ s.listen_port # None /\ s.fwmark # None
                 /\ device.peers = EmptyMap
                 /\ device.udp4 = None /\ device.udp6 = None
                 /\ ~PortInUse(4, Unwrap(s.listen_port))
                 /\ ~PortInUse(6, Unwrap(s.listen_port))) =>
                   /\ ctl'.pc = "respond"
                   /\ device'.udp4 # None /\ device'.udp6 # None
                   /\ device'.fwmark = s.fwmark
                   /\ Unwrap(device'.key_pair).sk = Unwrap(s.private_key)
                   /\ IF MarkRejected(Unwrap(s.fwmark))
                      THEN /\ Unwrap(ctl'.resp).errno = EADDRINUSE
                           /\ device'.peers = EmptyMap
                      ELSE /\ Unwrap(ctl'.resp).errno = 0
                           /\ PeerAsAsked(device', device.next_index, s.peers[1],
                                          Unwrap(s.private_key))]_vars

\* A request that removes a key and adds it again has been answered on a
\* device that had the peer: the peer is there, a new object under the next
\* index, with the allowed IPs of the add block.
C34_Witness ==
    /\ ctl.pc = "respond"
    /\ Unwrap(ctl.req).type = "set"
    /\ Len(Unwrap(ctl.req).set.peers) = 2
    /\ LET a == Unwrap(ctl.req).set.peers[1]
           b == Unwrap(ctl.req).set.peers[2]
       IN /\ a.remove /\ ~b.remove
          /\ a.public_key = b.public_key
          /\ b.allowed_ip # <<>>
          /\ b.public_key \in DOMAIN device.peers
          /\ device.peers[b.public_key] > 0
          /\ device.next_index = device.peers[b.public_key] + 1
          /\ Cardinality(DOMAIN device.peers) = 1
          /\ device.store[device.peers[b.public_key]].allowed_ips =
                {b.allowed_ip[i] : i \in DOMAIN b.allowed_ip}

\* C35: a tick of the 250 ms timer calls update_timers once for each peer
\* whose endpoint address is set and for no other peer, in every state of
\* the device; ConnectionExpired closes that peer's connected socket and
\* keeps its address, every other peer is left as it was, and the handler
\* returns Continue.
C35_TimersRunForPeersWithEndpoint ==
    [][(obs' # obs /\ obs'.handler = "timer") =>
          /\ obs'.called = {p \in MapValues(device.peers) : IsSome(device.store[p].addr)}
          /\ obs'.action = "Continue"
          /\ \A p \in MapValues(device.peers) :
                /\ p \in DOMAIN device'.store
                /\ device'.store[p].addr = device.store[p].addr
                /\ IF p \in obs'.called /\ obs'.results[p] = "ConnectionExpired"
                   THEN /\ device'.store[p].conn = None
                        /\ \A h \in device'.conn_handlers : h.peer = p => ~h.open
                   ELSE device'.store[p] = device.store[p]]_vars

C38_AddPeerFindsKeyPair ==
    [][(/\ ctl.pc = "handle"
        /\ Unwrap(ctl.req).type = "set"
        /\ Len(Unwrap(ctl.req).set.peers) = 1
        /\ ~Unwrap(ctl.req).set.peers[1].remove
        /\ ~Unwrap(ctl.req).set.peers[1].update_only
        /\ Unwrap(ctl.req).set.peers[1].preshared_key # Some(PskUnset)
        /\ Unwrap(ctl.req).set.protocol_version = None
        /\ \/ Unwrap(ctl.req).set.replace_peers
           \/ Unwrap(ctl.req).set.peers[1].public_key \notin DOMAIN device.peers
        /\ ctl'.pc # "handle") =>
          LET s == Unwrap(ctl.req).set
              d1 == IF s.replace_peers THEN clear_peers(device) ELSE device
              k == IF s.private_key # None
                   THEN set_key(d1, Unwrap(s.private_key))
                   ELSE [d |-> d1, panic |-> FALSE]
          IN ~k.panic =>
                /\ IsSome(k.d.key_pair)
                /\ ~TunnRejects(Unwrap(k.d.key_pair).sk, s.peers[1].public_key) =>
                      /\ ctl'.pc = "respond"
                      /\ s.peers[1].public_key \in DOMAIN device'.peers]_vars

\* C39: whenever a worker is inside the tun-ingress handler, both listening
\* sockets udp4 and udp6 are present, so that the handler's expectation
\* "Not connected" holds and the worker does not end by a panic there.
C39_TunHandlerFindsListeners ==
    /\ [](\A w \in Workers :
            (pc[w] = "handler" /\ Unwrap(cur[w]).kind = "iface") =>
                (IsSome(device.udp4) /\ IsSome(device.udp6)))
    /\ [][\A w \in Workers :
            (pc[w] = "handler" /\ Unwrap(cur[w]).kind = "iface") =>
                pc'[w] # "panicked"]_vars

\* C40: a step of the UDP-ingress handler changes the endpoint or the
\* connected socket of a peer, or the set of connected-socket handlers, only
\* for a datagram that the rate limiter passed, that matched a peer and for
\* which handle_verified_packet did not return Err; it then changes those of
\* the matched peer only, whose endpoint becomes the datagram's source.  Every
\* other datagram leaves the endpoints, the connected sockets and the
\* connected-socket handlers as they were.
C40_EndpointSetOnlyForAcceptedPacket ==
    [][obs'.handler = "udp" =>
        LET dg == obs'.dg
            out == obs'.out
            accepted == /\ dg.verdict = "packet"
                        /\ IsSome(out.peer)
                        /\ dg.outcome.result.kind # "Err"
            kept(p) == /\ device'.store[p].addr = device.store[p].addr
                       /\ device'.store[p].conn = device.store[p].conn
        IN /\ DOMAIN device'.store = DOMAIN device.store
           /\ ~accepted =>
                 /\ \A p \in DOMAIN device.store : kept(p)
                 /\ device'.conn_handlers = device.conn_handlers
                 /\ ~out.set_endpoint /\ ~out.connected
           /\ accepted =>
                 /\ \A p \in DOMAIN device.store \ {Unwrap(out.peer)} : kept(p)
                 /\ device'.store[Unwrap(out.peer)].addr = Some(dg.src)
                 /\ out.set_endpoint
                 /\ device'.conn_handlers # device.conn_handlers =>
                       (device.config.use_connected_socket /\ out.connected)]_vars

\* A datagram that matched a peer was refused by the tunnel and that peer has
\* no endpoint and no connected socket, while the other peer has learned its
\* endpoint from an accepted datagram.
C40_Witness ==
    /\ obs.handler = "udp"
    /\ obs.dg.verdict = "packet"
    /\ obs.dg.outcome.result.kind = "Err"
    /\ IsSome(obs.out.peer)
    /\ device.store[Unwrap(obs.out.peer)].addr = None
    /\ device.store[Unwrap(obs.out.peer)].conn = None
    /\ \E q \in DOMAIN device.store \ {Unwrap(obs.out.peer)} :
          device.store[q].addr = Some(obs.dg.src) /\ IsSome(device.store[q].conn)

====
